---- MODULE Spec2Model ----
(***************************************************************************)
(* Model of the trolley motion-control core: hardware_control (Hall pulse  *)
(* pipeline and ESC driver), sensor_health (validation gate), the three    *)
(* mode engines and mode_coordinator.                                      *)
(*                                                                         *)
(* Units: time in ms (the code's microsecond timestamps divided by 1000),  *)
(* speed in mm/s, acceleration in milli-g, PWM duty in LEDC counts.        *)
(***************************************************************************)
EXTENDS Integers, Sequences, FiniteSets, TLC

VARIABLES
    now,                  \* esp_timer_get_time(), in ms
    g_hw_status,          \* hardware_control.cpp statics
    g_hall_event_queue,   \* FreeRTOS queue of Hall timestamps
    hw_ret,               \* return value of the last hardware API call
    g_sensor_health,      \* sensor_health.cpp statics
    g_mode_status,        \* mode_coordinator.cpp statics
    g_learning_progress,  \* wire learning engine statics
    g_auto_progress,      \* automatic engine statics
    g_manual_status,      \* manual engine statics
    g_rate,               \* manual command rate limiter statics
    lastPulseArrival,     \* time of the last Hall edge seen by the ISR (0 = none)
    hw_err_seen,          \* what hardware_set_motor_speed returned per fault
    estop_cycles,         \* update cycles completed since the emergency stop (-1 = none)
    rate_hist,            \* the rate limiter's calls so far: time and verdict of each
    pulse_bursts,         \* bursts of Hall pulses so far (SpecLearning)
    last_report,          \* time of the last mode_coordinator_report_error call (0 = none)
    gate_entered,         \* time at which sensor_health_update last changed init_state
    recovery,             \* stage of the operator's recovery from an emergency stop (SpecRecover)
    esc_target_duty,      \* target_duty of esc_update_task in mid-iteration (-1 = between iterations)
    session_fails,        \* failed Hall-liveness observations in a row in this manual session
    arm_pc                \* position of the task that is inside hardware_esc_arm

vars == <<now, g_hw_status, g_hall_event_queue, hw_ret, g_sensor_health,
          g_mode_status, g_learning_progress, g_auto_progress, g_manual_status,
          g_rate, lastPulseArrival, hw_err_seen, estop_cycles,
          rate_hist, pulse_bursts, last_report, gate_entered, recovery, esc_target_duty, session_fails, arm_pc>>

hwVars   == <<g_hw_status, g_hall_event_queue, hw_ret, lastPulseArrival, hw_err_seen,
             pulse_bursts, last_report, gate_entered, recovery, esc_target_duty, session_fails, arm_pc>>
rateVars == <<g_rate, rate_hist>>
modeVars == <<g_mode_status, g_learning_progress, g_auto_progress, g_manual_status,
              estop_cycles>>

-----------------------------------------------------------------------------
(* Bounds of the model *)

HwTimeStep == 1100
MaxHwTime == 6500
MaxPulses == 2
CoordTimeStep == 62000
MaxCoordTime == 127000
MaxCoordPulses == 1
RateTimeStep == 400
MaxRateTime == 3600
MaxRateCommands == 16
LearnTimeStep == 61000
MaxLearnTime == 63000
MaxBursts == 4
MaxTimeoutBursts == 4
ErrTimeStep == 10000
MaxErrTime == 61000
MaxErrors == 11

\* Manual sessions (SpecManual): time between update cycles, just over the
\* Hall-liveness period of 2 s, the horizon, and the wheel pulses seen.
ManualTimeStep == 2100
MaxManualTime == 8300
MaxManualPulses == 2
MaxManualFailures == 4

\* The Hall queue under load (SpecQueue): time between wheel pulses and the
\* horizon, long enough for more pulses than the queue holds.
QueueTimeStep == 5
MaxQueueTime == 2060

-----------------------------------------------------------------------------
(* Program constants *)

BOOT_DELAY_MS == 2000
WHEEL_CIRCUMFERENCE_UM == 191600
MAX_SPEED_MS == 2000
ESC_SPEED_DEADBAND == 50
HALL_TIMEOUT_MS == 2000
HALL_QUEUE_DEPTH == 10
ESC_MIN_DUTY == 819
ESC_NEUTRAL_DUTY == 1229
ESC_MAX_DUTY == 1638
ESC_ARM_DUTY == 819
ESC_MAX_SPEED_CHANGE == 100

Abs(x) == IF x < 0 THEN -x ELSE x

\* Speeds offered to hardware_set_motor_speed (mm/s): below 0, inside the
\* deadband, in range and above the limit.
SpeedInputs == {-100, 0, 1500, 2100}

\* Duties handed to hardware_set_esc_duty_direct: the ends of the range and
\* the first value beyond each.
DutyInputs == {ESC_MIN_DUTY - 1, ESC_MIN_DUTY, ESC_MAX_DUTY, ESC_MAX_DUTY + 1}

\* Speeds commanded while the Hall pipeline is observed: stopped and moving.
HallSpeedInputs == {0, 1500}

-----------------------------------------------------------------------------
(* hardware_control.cpp *)

InitHwStatus ==
    [ esc_armed |-> FALSE, esc_responding |-> FALSE,
      current_esc_duty |-> ESC_NEUTRAL_DUTY, ledc_duty |-> ESC_NEUTRAL_DUTY,
      current_speed_ms |-> 0, target_speed_ms |-> 0, direction_forward |-> TRUE,
      total_rotations |-> 0, last_hall_time |-> 0, hall_sensor_healthy |-> FALSE,
      system_initialized |-> FALSE,
      g_last_error |-> "HW_ERROR_NONE", g_last_esc_duty |-> ESC_NEUTRAL_DUTY,
      g_rate_limiting_enabled |-> TRUE,
      g_current_position |-> 0, g_rotation_count_offset |-> 0,
      last_time |-> 0 ]

hardware_is_speed_valid(speed_ms) == speed_ms >= 0 /\ speed_ms <= MAX_SPEED_MS

speed_to_esc_duty(speed_ms, forward) ==
    LET s1 == IF speed_ms > MAX_SPEED_MS THEN MAX_SPEED_MS ELSE speed_ms
        s  == IF s1 < 0 THEN 0 ELSE s1
    IN  IF s < ESC_SPEED_DEADBAND THEN ESC_NEUTRAL_DUTY
        ELSE IF forward
             THEN ESC_NEUTRAL_DUTY + (s * (ESC_MAX_DUTY - ESC_NEUTRAL_DUTY)) \div MAX_SPEED_MS
             ELSE ESC_NEUTRAL_DUTY - (s * (ESC_NEUTRAL_DUTY - ESC_MIN_DUTY)) \div MAX_SPEED_MS

\* hardware_set_motor_speed: the resulting statics and the returned esp_err_t.
hardware_set_motor_speed_m7(hw, speed_ms, forward) ==
    IF ~hw.system_initialized
    THEN [hw  |-> [hw EXCEPT !.g_last_error = "HW_ERROR_SYSTEM_NOT_INITIALIZED"],
          ret |-> "ESP_ERR_INVALID_STATE"]
    ELSE IF ~hw.esc_armed
    THEN [hw  |-> [hw EXCEPT !.g_last_error = "HW_ERROR_ESC_NOT_RESPONDING"],
          ret |-> "ESP_ERR_INVALID_STATE"]
    ELSE IF ~hardware_is_speed_valid(speed_ms)
    THEN [hw  |-> [hw EXCEPT !.g_last_error = "HW_ERROR_SPEED_OUT_OF_RANGE"],
          ret |-> "ESP_ERR_INVALID_ARG"]
    ELSE [hw  |-> [hw EXCEPT !.target_speed_ms = speed_ms,
                             !.direction_forward = forward],
          ret |-> "ESP_OK"]

hardware_set_motor_speed_m8(hw, speed_ms, forward) ==
    IF ~hw.system_initialized
    THEN [hw  |-> [hw EXCEPT !.g_last_error = "HW_ERROR_SYSTEM_NOT_INITIALIZED"],
          ret |-> "ESP_ERR_INVALID_STATE"]
    ELSE IF ~hardware_is_speed_valid(speed_ms)
    THEN [hw  |-> [hw EXCEPT !.g_last_error = "HW_ERROR_SPEED_OUT_OF_RANGE"],
          ret |-> "ESP_ERR_INVALID_ARG"]
    ELSE IF ~hw.esc_armed
    THEN [hw  |-> [hw EXCEPT !.g_last_error = "HW_ERROR_SYSTEM_NOT_INITIALIZED"],
          ret |-> "ESP_ERR_INVALID_STATE"]
    ELSE [hw  |-> [hw EXCEPT !.target_speed_ms = speed_ms,
                             !.direction_forward = forward],
          ret |-> "ESP_OK"]

hardware_set_motor_speed(hw, speed_ms, forward) ==
    IF ~hw.system_initialized
    THEN [hw  |-> [hw EXCEPT !.g_last_error = "HW_ERROR_SYSTEM_NOT_INITIALIZED"],
          ret |-> "ESP_ERR_INVALID_STATE"]
    ELSE IF ~hardware_is_speed_valid(speed_ms)
    THEN [hw  |-> [hw EXCEPT !.g_last_error = "HW_ERROR_SPEED_OUT_OF_RANGE"],
          ret |-> "ESP_ERR_INVALID_ARG"]
    ELSE IF ~hw.esc_armed
    THEN [hw  |-> [hw EXCEPT !.g_last_error = "HW_ERROR_ESC_NOT_RESPONDING"],
          ret |-> "ESP_ERR_INVALID_STATE"]
    ELSE [hw  |-> [hw EXCEPT !.target_speed_ms = speed_ms,
                             !.direction_forward = forward],
          ret |-> "ESP_OK"]

\* hardware_esc_arm: neutral 1 s, arm pulse 3 s, back to neutral, then armed.
hardware_esc_arm(hw) ==
    IF ~hw.system_initialized
    THEN [hw  |-> [hw EXCEPT !.g_last_error = "HW_ERROR_SYSTEM_NOT_INITIALIZED"],
          ret |-> "ESP_ERR_INVALID_STATE"]
    ELSE [hw  |-> [hw EXCEPT !.ledc_duty = ESC_NEUTRAL_DUTY,
                             !.esc_armed = TRUE,
                             !.current_esc_duty = ESC_NEUTRAL_DUTY],
          ret |-> "ESP_OK"]

hardware_esc_disarm(hw) ==
    [hw EXCEPT !.target_speed_ms = 0, !.ledc_duty = ESC_NEUTRAL_DUTY,
               !.esc_armed = FALSE, !.current_esc_duty = ESC_NEUTRAL_DUTY]

hardware_emergency_stop(hw) ==
    [hw EXCEPT !.target_speed_ms = 0, !.current_esc_duty = ESC_NEUTRAL_DUTY,
               !.ledc_duty = ESC_NEUTRAL_DUTY]

\* hardware_set_esc_duty_direct: write the PWM and the live duty, armed and in range only.
hardware_set_esc_duty_direct(hw, duty_cycle) ==
    IF ~hw.esc_armed THEN [hw |-> hw, ret |-> "ESP_ERR_INVALID_STATE"]
    ELSE IF duty_cycle < ESC_MIN_DUTY \/ duty_cycle > ESC_MAX_DUTY
    THEN [hw |-> hw, ret |-> "ESP_ERR_INVALID_ARG"]
    ELSE [hw  |-> [hw EXCEPT !.ledc_duty = duty_cycle, !.current_esc_duty = duty_cycle],
          ret |-> "ESP_OK"]

hardware_set_esc_rate_limiting(hw, enable) ==
    [hw EXCEPT !.g_rate_limiting_enabled = enable]

hardware_reset_rotation_count(hw) ==
    [hw EXCEPT !.g_rotation_count_offset = hw.total_rotations]

hardware_reset_position(hw) ==
    hardware_reset_rotation_count([hw EXCEPT !.g_current_position = 0])

hardware_get_current_speed(hw) == hw.current_speed_ms

hardware_get_rotation_count(hw) == hw.total_rotations - hw.g_rotation_count_offset

\* rotations * WHEEL_CIRCUMFERENCE_MM * MM_TO_M, in units of 0.1 mm.
hardware_rotations_to_distance(rotations) == rotations * (WHEEL_CIRCUMFERENCE_UM \div 100)

hardware_get_time_since_last_hall_pulse(hw) ==
    IF hw.last_hall_time = 0 THEN 0 ELSE now - hw.last_hall_time

hall_sensor_isr_handler_m31 ==
    /\ g_hall_event_queue' = IF Len(g_hall_event_queue) < HALL_QUEUE_DEPTH
                             THEN Append(g_hall_event_queue, now)
                             ELSE Append(Tail(g_hall_event_queue), now)
    /\ lastPulseArrival' = now
    /\ UNCHANGED <<now, g_hw_status, hw_ret, hw_err_seen, pulse_bursts, last_report, gate_entered, recovery, esc_target_duty, session_fails, arm_pc, g_sensor_health, modeVars, rateVars>>

\* hall_sensor_isr_handler: post the timestamp; a full queue drops it.
hall_sensor_isr_handler ==
    /\ g_hall_event_queue' = IF Len(g_hall_event_queue) < HALL_QUEUE_DEPTH
                             THEN Append(g_hall_event_queue, now)
                             ELSE g_hall_event_queue
    /\ lastPulseArrival' = now
    /\ UNCHANGED <<now, g_hw_status, hw_ret, hw_err_seen, pulse_bursts, last_report, gate_entered, recovery, esc_target_duty, session_fails, arm_pc, g_sensor_health, modeVars, rateVars>>

\* One iteration of hall_processing_task on the timestamp at the queue head.
HallProcess(hw, hall_time) ==
    LET dt    == hall_time - hw.last_time
        meas  == WHEEL_CIRCUMFERENCE_UM \div dt
        speed == IF hw.last_time > 0 /\ dt > 0
                 THEN (hw.current_speed_ms * 7 + meas * 3) \div 10
                 ELSE hw.current_speed_ms
    IN  [hw EXCEPT !.total_rotations = @ + 1,
                   !.current_speed_ms = speed,
                   !.g_current_position = IF hw.direction_forward THEN @ + 1 ELSE @ - 1,
                   !.last_time = hall_time,
                   !.last_hall_time = hall_time,
                   !.hall_sensor_healthy = TRUE]

hall_processing_task ==
    /\ g_hall_event_queue # << >>
    /\ g_hw_status' = HallProcess(g_hw_status, Head(g_hall_event_queue))
    /\ g_hall_event_queue' = Tail(g_hall_event_queue)
    /\ UNCHANGED <<now, hw_ret, hw_err_seen, lastPulseArrival, pulse_bursts, last_report, gate_entered, recovery, esc_target_duty, session_fails, arm_pc, g_sensor_health, modeVars, rateVars>>

\* One iteration of esc_update_task.
EscUpdate_m9(hw) ==
    LET target_duty == speed_to_esc_duty(hw.target_speed_ms, hw.direction_forward)
        duty_diff   == target_duty - hw.current_esc_duty
        duty == IF hw.system_initialized /\ hw.esc_armed
                THEN IF hw.g_rate_limiting_enabled /\ Abs(duty_diff) > ESC_MAX_SPEED_CHANGE
                     THEN IF duty_diff > 0
                          THEN hw.current_esc_duty + ESC_MAX_SPEED_CHANGE
                          ELSE hw.current_esc_duty - ESC_MAX_SPEED_CHANGE
                     ELSE target_duty
                ELSE hw.current_esc_duty
        driven  == hw.system_initialized /\ hw.esc_armed
        last    == IF driven THEN duty ELSE hw.g_last_esc_duty
        timeout == hw.last_hall_time > 0 /\ (now - hw.last_hall_time) > HALL_TIMEOUT_MS * 1000
    IN  [hw EXCEPT !.current_esc_duty = duty,
                   !.ledc_duty = IF driven THEN duty ELSE @,
                   !.g_last_esc_duty = last,
                   !.esc_responding = (duty = last),
                   !.current_speed_ms = IF timeout THEN 0 ELSE @,
                   !.hall_sensor_healthy =
                       IF timeout /\ hw.target_speed_ms > ESC_SPEED_DEADBAND
                       THEN FALSE ELSE @]

EscUpdate_m30(hw) ==
    LET target_duty == speed_to_esc_duty(hw.target_speed_ms, hw.direction_forward)
        duty_diff   == target_duty - hw.current_esc_duty
        duty == IF hw.system_initialized /\ hw.esc_armed
                THEN IF hw.g_rate_limiting_enabled
                     THEN IF duty_diff > 0
                          THEN hw.current_esc_duty + ESC_MAX_SPEED_CHANGE
                          ELSE hw.current_esc_duty - ESC_MAX_SPEED_CHANGE
                     ELSE target_duty
                ELSE hw.current_esc_duty
        driven  == hw.system_initialized /\ hw.esc_armed
        last    == IF driven THEN duty ELSE hw.g_last_esc_duty
        timeout == hw.last_hall_time > 0 /\ (now - hw.last_hall_time) > HALL_TIMEOUT_MS
    IN  [hw EXCEPT !.current_esc_duty = duty,
                   !.ledc_duty = IF driven THEN duty ELSE @,
                   !.g_last_esc_duty = last,
                   !.esc_responding = (duty = last),
                   !.current_speed_ms = IF timeout THEN 0 ELSE @,
                   !.hall_sensor_healthy =
                       IF timeout /\ hw.target_speed_ms > ESC_SPEED_DEADBAND
                       THEN FALSE ELSE @]

EscUpdate(hw) ==
    LET target_duty == speed_to_esc_duty(hw.target_speed_ms, hw.direction_forward)
        duty_diff   == target_duty - hw.current_esc_duty
        duty == IF hw.system_initialized /\ hw.esc_armed
                THEN IF hw.g_rate_limiting_enabled /\ Abs(duty_diff) > ESC_MAX_SPEED_CHANGE
                     THEN IF duty_diff > 0
                          THEN hw.current_esc_duty + ESC_MAX_SPEED_CHANGE
                          ELSE hw.current_esc_duty - ESC_MAX_SPEED_CHANGE
                     ELSE target_duty
                ELSE hw.current_esc_duty
        driven  == hw.system_initialized /\ hw.esc_armed
        last    == IF driven THEN duty ELSE hw.g_last_esc_duty
        timeout == hw.last_hall_time > 0 /\ (now - hw.last_hall_time) > HALL_TIMEOUT_MS
    IN  [hw EXCEPT !.current_esc_duty = duty,
                   !.ledc_duty = IF driven THEN duty ELSE @,
                   !.g_last_esc_duty = last,
                   !.esc_responding = (duty = last),
                   !.current_speed_ms = IF timeout THEN 0 ELSE @,
                   !.hall_sensor_healthy =
                       IF timeout /\ hw.target_speed_ms > ESC_SPEED_DEADBAND
                       THEN FALSE ELSE @]

esc_update_task ==
    /\ g_hw_status' = EscUpdate(g_hw_status)
    /\ UNCHANGED <<now, g_hall_event_queue, hw_ret, hw_err_seen, lastPulseArrival, pulse_bursts, last_report, gate_entered, recovery, esc_target_duty, session_fails, arm_pc,
                   g_sensor_health, modeVars, rateVars>>

-----------------------------------------------------------------------------
(* sensor_health.cpp: the validation gate.  Accelerations are in 0.01 g.    *)
(* The record keeps the fields the gate's decisions read; pulse statistics  *)
(* (count, rpm, wheel speed) and the status strings are left out.           *)

HALL_VALIDATION_TIMEOUT_MS == 60000
ACCEL_VALIDATION_TIMEOUT_MS == 60000
MINIMUM_SHAKE_THRESHOLD_G == 30
ACCEL_RANGE_G == 800

\* One MPU read: it can fail, or deliver the three axes.
AccelReads ==
    { [ok |-> FALSE, x |-> 0, y |-> 0, z |-> 0],
      [ok |-> TRUE,  x |-> 0, y |-> 0, z |-> 100] }

\* sqrt() on the scaled integers, rounded down.
ISqrt(n) == CHOOSE r \in 0..(2 * ACCEL_RANGE_G) : r * r <= n /\ (r + 1) * (r + 1) > n

InitSensorHealth(t) ==
    [ init_state |-> "START", init_start_time |-> t,
      wheel_rotation_detected |-> FALSE, trolley_shake_detected |-> FALSE,
      g_validation_active |-> FALSE,
      sensors_validated |-> FALSE, system_ready |-> FALSE,
      total_accel_g |-> 0 ]

sensor_health_process_accel_data(sh, x_g, y_g, z_g) ==
    LET sumsq == x_g * x_g + y_g * y_g + z_g * z_g
        total == ISqrt(sumsq)
    IN  [sh EXCEPT
            !.total_accel_g = total,
            !.trolley_shake_detected =
                IF sh.g_validation_active
                   /\ sumsq > MINIMUM_SHAKE_THRESHOLD_G * MINIMUM_SHAKE_THRESHOLD_G
                THEN TRUE ELSE @]

ReadAccel(sh, read) ==
    IF read.ok THEN sensor_health_process_accel_data(sh, read.x, read.y, read.z) ELSE sh

\* sensor_health_update with the wheel wait skipped on timeout instead of failing.
sensor_health_update_m6(sh, read) ==
    LET elapsed_time == now - sh.init_start_time
    IN  CASE sh.init_state = "START" ->
                [sh EXCEPT !.init_state = "WAIT_WHEEL_ROTATION", !.g_validation_active = TRUE]
          [] sh.init_state = "WAIT_WHEEL_ROTATION" ->
                IF sh.wheel_rotation_detected
                   \/ elapsed_time > HALL_VALIDATION_TIMEOUT_MS
                THEN [sh EXCEPT !.init_state = "WAIT_TROLLEY_SHAKE"]
                ELSE sh
          [] sh.init_state = "WAIT_TROLLEY_SHAKE" ->
                LET s1 == ReadAccel(sh, read)
                IN  IF s1.trolley_shake_detected
                    THEN [s1 EXCEPT !.init_state = "SENSORS_READY"]
                    ELSE IF elapsed_time > ACCEL_VALIDATION_TIMEOUT_MS
                    THEN [s1 EXCEPT !.init_state = "FAILED"]
                    ELSE s1
          [] sh.init_state = "SENSORS_READY" ->
                [sh EXCEPT !.sensors_validated = TRUE, !.system_ready = TRUE,
                           !.init_state = "SYSTEM_READY", !.g_validation_active = FALSE]
          [] sh.init_state = "SYSTEM_READY" -> ReadAccel(sh, read)
          [] OTHER -> [sh EXCEPT !.system_ready = FALSE]

\* sensor_health_update: one step of the gate's state machine.
sensor_health_update(sh, read) ==
    LET elapsed_time == now - sh.init_start_time
    IN  CASE sh.init_state = "START" ->
                [sh EXCEPT !.init_state = "WAIT_WHEEL_ROTATION", !.g_validation_active = TRUE]
          [] sh.init_state = "WAIT_WHEEL_ROTATION" ->
                IF sh.wheel_rotation_detected
                THEN [sh EXCEPT !.init_state = "WAIT_TROLLEY_SHAKE"]
                ELSE IF elapsed_time > HALL_VALIDATION_TIMEOUT_MS
                THEN [sh EXCEPT !.init_state = "FAILED"]
                ELSE sh
          [] sh.init_state = "WAIT_TROLLEY_SHAKE" ->
                LET s1 == ReadAccel(sh, read)
                IN  IF s1.trolley_shake_detected
                    THEN [s1 EXCEPT !.init_state = "SENSORS_READY"]
                    ELSE IF elapsed_time > ACCEL_VALIDATION_TIMEOUT_MS
                    THEN [s1 EXCEPT !.init_state = "FAILED"]
                    ELSE s1
          [] sh.init_state = "SENSORS_READY" ->
                [sh EXCEPT !.sensors_validated = TRUE, !.system_ready = TRUE,
                           !.init_state = "SYSTEM_READY", !.g_validation_active = FALSE]
          [] sh.init_state = "SYSTEM_READY" -> ReadAccel(sh, read)
          [] OTHER -> [sh EXCEPT !.system_ready = FALSE]

sensor_health_hall_pulse_detected(sh) ==
    [sh EXCEPT !.wheel_rotation_detected = IF sh.g_validation_active THEN TRUE ELSE @]

sensor_health_reset_validation(sh) ==
    [sh EXCEPT !.init_state = "START", !.init_start_time = now,
               !.sensors_validated = FALSE, !.system_ready = FALSE,
               !.wheel_rotation_detected = FALSE, !.trolley_shake_detected = FALSE,
               !.total_accel_g = 0,
               !.g_validation_active = FALSE]

-----------------------------------------------------------------------------
(* The mode engines and the coordinator call into each other and into the   *)
(* hardware, so their functions are operators on the record w of all the    *)
(* statics: w.hw, w.sh (sensor gate), w.ms (coordinator), w.wl, w.au, w.mm. *)
(* w.delay adds up the vTaskDelay waits (ms) of the call in progress, the   *)
(* 1 s + 3 s of hardware_esc_arm's arming sequence included.                *)
(* A function with a return value yields [w |-> ..., ret |-> ...].          *)

World ==
    [ hw |-> g_hw_status, sh |-> g_sensor_health, ms |-> g_mode_status,
      wl |-> g_learning_progress, au |-> g_auto_progress, mm |-> g_manual_status,
      delay |-> 0 ]

\* Position of an enumerator in its enum.
Ord(enum, e) == CHOOSE i \in 1..Len(enum) : enum[i] = e

WireLearningStates ==
    << "IDLE", "INITIALIZING", "FORWARD_DIRECTION", "DIRECTION_PAUSE",
       "REVERSE_DIRECTION", "CALCULATING_RESULTS", "COMPLETE", "FAILED", "STOPPING" >>

AutoStates ==
    << "IDLE", "INITIALIZING", "ARMING_ESC", "ACCELERATING", "CRUISING",
       "COASTING_CALIBRATION", "COASTING", "WIRE_END_APPROACH", "DIRECTION_CHANGE",
       "CYCLE_COMPLETE", "STOPPING_GRACEFUL", "STOPPING_INTERRUPTED", "ERROR", "COMPLETE" >>

ManualStates ==
    << "IDLE", "INITIALIZING", "READY", "ESC_ARMING", "ACTIVE", "MOVING_FORWARD",
       "MOVING_BACKWARD", "STOPPING", "ESC_DISARMING", "ERROR", "EMERGENCY_STOP" >>

ValidationStates ==
    << "NOT_STARTED", "IN_PROGRESS", "HALL_PENDING", "ACCEL_PENDING", "COMPLETE", "FAILED" >>

mode_coordinator_are_sensors_validated(w) == w.ms.sensors_validated

mode_coordinator_is_motion_safe(w) ==
    /\ w.ms.sensors_validated
    /\ w.ms.system_healthy
    /\ w.hw.system_initialized /\ w.hw.hall_sensor_healthy
    /\ w.sh.system_ready

\* A length in metres, in the model's unit of 0.1 mm.
Metres(m) == m * 10000

\* mode_coordinator_set_wire_learning_results: the result is taken as it
\* comes (the write to NVS is not modelled).
mode_coordinator_set_wire_learning_results(w, results) ==
    [w EXCEPT !.ms.wire_learning_complete = results.complete,
              !.ms.wire_length_m = results.wire_length_m]

-----------------------------------------------------------------------------
(* manual_mode.cpp: the command rate limiter *)

MANUAL_MAX_COMMANDS_PER_SEC == 10
MANUAL_COMMAND_HISTORY_SIZE == 20

InitRate ==
    [ g_command_times |-> [i \in 0..(MANUAL_COMMAND_HISTORY_SIZE - 1) |-> 0],
      g_command_history_index |-> 0,
      g_commands_this_second |-> 0,
      g_last_second_start |-> 0 ]

\* manual_mode_check_command_rate_limit letting one command more through.
manual_mode_check_command_rate_limit_m10(r) ==
    LET r1 == IF now - r.g_last_second_start > 1000
              THEN [r EXCEPT !.g_commands_this_second = 0, !.g_last_second_start = now]
              ELSE r
    IN  IF r1.g_commands_this_second > MANUAL_MAX_COMMANDS_PER_SEC
        THEN [r |-> r1, ret |-> FALSE]
        ELSE [r |-> [r1 EXCEPT
                        !.g_command_times[r1.g_command_history_index] = now,
                        !.g_command_history_index = (@ + 1) % MANUAL_COMMAND_HISTORY_SIZE,
                        !.g_commands_this_second = @ + 1],
              ret |-> TRUE]

manual_mode_check_command_rate_limit(r) ==
    LET r1 == IF now - r.g_last_second_start > 1000
              THEN [r EXCEPT !.g_commands_this_second = 0, !.g_last_second_start = now]
              ELSE r
    IN  IF r1.g_commands_this_second >= MANUAL_MAX_COMMANDS_PER_SEC
        THEN [r |-> r1, ret |-> FALSE]
        ELSE [r |-> [r1 EXCEPT
                        !.g_command_times[r1.g_command_history_index] = now,
                        !.g_command_history_index = (@ + 1) % MANUAL_COMMAND_HISTORY_SIZE,
                        !.g_commands_this_second = @ + 1],
              ret |-> TRUE]

-----------------------------------------------------------------------------
(* manual_mode.cpp.  Session statistics and the status strings are left out. *)

MANUAL_MODE_MAX_SPEED_MS == 2000
MANUAL_MODE_MIN_SPEED_MS == 50
MANUAL_MODE_DEFAULT_SPEED_MS == 500
MANUAL_MODE_MAX_STEP_MS == 1000
MANUAL_MODE_MAX_IMPACT_G == 80
MOTION_VALIDATION_TIMEOUT_MS == 2000
MOTION_VALIDATION_MAX_FAILURES == 3

InitManualStatus ==
    [ state |-> "IDLE", esc_armed |-> FALSE, esc_responding |-> FALSE,
      motor_active |-> FALSE, target_speed_ms |-> 0, current_speed_ms |-> 0,
      direction_forward |-> TRUE,
      g_last_motion_validation_time |-> 0, g_motion_validation_failures |-> 0 ]

manual_mode_is_active(w) ==
    /\ Ord(ManualStates, w.mm.state) > Ord(ManualStates, "IDLE")
    /\ Ord(ManualStates, w.mm.state) < Ord(ManualStates, "EMERGENCY_STOP")

manual_mode_is_speed_safe(w, speed_ms) ==
    /\ ~(speed_ms < 0 \/ speed_ms > MANUAL_MODE_MAX_SPEED_MS)
    /\ ~(Abs(speed_ms - w.mm.current_speed_ms) > MANUAL_MODE_MAX_STEP_MS)

manual_mode_emergency_stop(w) ==
    [w EXCEPT !.hw = hardware_emergency_stop(w.hw),
              !.mm = [w.mm EXCEPT !.state = "EMERGENCY_STOP", !.motor_active = FALSE,
                                  !.target_speed_ms = 0, !.current_speed_ms = 0]]

manual_mode_set_speed(w, speed_ms, forward) ==
    IF ~manual_mode_is_active(w) THEN [w |-> w, ret |-> "ESP_ERR_INVALID_STATE"]
    ELSE IF ~manual_mode_is_speed_safe(w, speed_ms) THEN [w |-> w, ret |-> "ESP_ERR_INVALID_ARG"]
    ELSE IF ~w.mm.esc_armed /\ speed_ms > 0 THEN [w |-> w, ret |-> "ESP_ERR_INVALID_STATE"]
    ELSE LET mm1 == [w.mm EXCEPT !.target_speed_ms = speed_ms,
                                 !.direction_forward = forward,
                                 !.motor_active = (speed_ms > MANUAL_MODE_MIN_SPEED_MS)]
             r   == hardware_set_motor_speed(w.hw, speed_ms, forward)
             st  == IF speed_ms > MANUAL_MODE_MIN_SPEED_MS
                    THEN IF forward THEN "MOVING_FORWARD" ELSE "MOVING_BACKWARD"
                    ELSE "ACTIVE"
         IN  IF r.ret # "ESP_OK"
             THEN [w |-> [w EXCEPT !.hw = r.hw, !.mm = mm1], ret |-> r.ret]
             ELSE [w |-> [w EXCEPT !.hw = r.hw, !.mm = [mm1 EXCEPT !.state = st]],
                   ret |-> "ESP_OK"]

manual_mode_move_forward(w) == manual_mode_set_speed(w, MANUAL_MODE_DEFAULT_SPEED_MS, TRUE)

\* manual_mode_stop_movement: speed 0, STOPPING for 200 ms, then ACTIVE.
manual_mode_stop_movement(w) ==
    LET r == manual_mode_set_speed(w, 0, w.mm.direction_forward)
    IN  IF r.ret = "ESP_OK"
        THEN [w |-> [r.w EXCEPT !.mm.state = "ACTIVE", !.delay = @ + 200],
              ret |-> "ESP_OK"]
        ELSE r

manual_mode_arm_esc(w) ==
    IF ~manual_mode_is_active(w) THEN [w |-> w, ret |-> "ESP_ERR_INVALID_STATE"]
    ELSE IF w.mm.esc_armed THEN [w |-> w, ret |-> "ESP_OK"]
    ELSE LET r == hardware_esc_arm(w.hw)
         IN  IF r.ret = "ESP_OK"
             THEN [w |-> [w EXCEPT !.hw = r.hw, !.delay = @ + 4000,
                                   !.mm = [w.mm EXCEPT !.esc_armed = TRUE,
                                                       !.esc_responding = TRUE,
                                                       !.state = "ACTIVE"]],
                   ret |-> "ESP_OK"]
             ELSE [w |-> [w EXCEPT !.hw = r.hw, !.mm.state = "ERROR"], ret |-> r.ret]

manual_mode_disarm_esc(w) ==
    LET w1 == manual_mode_stop_movement(w).w
    IN  [w1 EXCEPT !.hw = hardware_esc_disarm(w1.hw),
                   !.mm = [w1.mm EXCEPT !.esc_armed = FALSE, !.esc_responding = FALSE,
                                        !.motor_active = FALSE, !.target_speed_ms = 0,
                                        !.state = "READY"]]

\* manual_mode_start without the check of the coordinator's validation flag.
manual_mode_start_m4(w) ==
    [w |-> [w EXCEPT !.hw = hardware_reset_position(w.hw),
                     !.mm = [w.mm EXCEPT !.state = "READY", !.esc_armed = FALSE,
                                         !.motor_active = FALSE, !.target_speed_ms = 0,
                                         !.current_speed_ms = 0,
                                         !.direction_forward = TRUE]],
     ret |-> "ESP_OK"]

manual_mode_start(w) ==
    IF ~mode_coordinator_are_sensors_validated(w)
    THEN [w |-> w, ret |-> "ESP_ERR_INVALID_STATE"]
    ELSE [w |-> [w EXCEPT !.hw = hardware_reset_position(w.hw),
                          !.mm = [w.mm EXCEPT !.state = "READY", !.esc_armed = FALSE,
                                              !.motor_active = FALSE,
                                              !.target_speed_ms = 0,
                                              !.current_speed_ms = 0,
                                              !.direction_forward = TRUE]],
          ret |-> "ESP_OK"]

manual_mode_stop(w) ==
    LET w1 == manual_mode_stop_movement(w).w
        w2 == IF w1.mm.esc_armed THEN manual_mode_disarm_esc(w1) ELSE w1
    IN  [w2 EXCEPT !.mm.state = "IDLE"]

\* manual_mode_check_impact_detection: TRUE (after an emergency stop) on impact.
manual_mode_check_impact_detection(w) ==
    IF w.sh.total_accel_g > MANUAL_MODE_MAX_IMPACT_G
    THEN [w |-> manual_mode_emergency_stop(w), ret |-> TRUE]
    ELSE [w |-> w, ret |-> FALSE]

manual_mode_monitor_hall_sensor(w) ==
    IF ~w.mm.motor_active THEN [w |-> w, ret |-> TRUE]
    ELSE IF now - w.mm.g_last_motion_validation_time > MOTION_VALIDATION_TIMEOUT_MS
    THEN IF hardware_get_time_since_last_hall_pulse(w.hw) > MOTION_VALIDATION_TIMEOUT_MS
         THEN LET n  == w.mm.g_motion_validation_failures + 1
                  w1 == [w EXCEPT !.mm.g_motion_validation_failures = n]
              IN  IF n >= MOTION_VALIDATION_MAX_FAILURES
                  THEN [w |-> manual_mode_emergency_stop(w1), ret |-> FALSE]
                  ELSE [w |-> [w1 EXCEPT !.mm.g_last_motion_validation_time = now],
                        ret |-> TRUE]
         ELSE [w |-> [w EXCEPT !.mm.g_motion_validation_failures = 0,
                               !.mm.g_last_motion_validation_time = now],
               ret |-> TRUE]
    ELSE [w |-> w, ret |-> TRUE]

manual_mode_monitor_sensor_health(w) ==
    IF ~mode_coordinator_are_sensors_validated(w) THEN [w |-> w, ret |-> FALSE]
    ELSE LET i == manual_mode_check_impact_detection(w)
         IN  IF i.ret THEN [w |-> i.w, ret |-> FALSE]
             ELSE IF w.mm.motor_active
                  THEN manual_mode_monitor_hall_sensor(w)
                  ELSE [w |-> w, ret |-> TRUE]

\* manual_mode_validate_command for a command of the given type and speed
\* parameter; rate is the verdict of manual_mode_check_command_rate_limit.
manual_mode_validate_command(w, rate, type, speed_parameter) ==
    /\ rate
    /\ manual_mode_is_active(w)
    /\ type \in {"SET_SPEED", "FORWARD", "BACKWARD"}
          => manual_mode_is_speed_safe(w, speed_parameter)
    /\ type \in {"SET_SPEED", "FORWARD", "BACKWARD"} => w.mm.esc_armed
    /\ manual_mode_monitor_sensor_health(w).ret

manual_mode_is_esc_responding(w) == w.mm.esc_responding /\ w.hw.esc_armed

manual_mode_is_operation_safe(w) ==
    IF ~mode_coordinator_is_motion_safe(w) THEN [w |-> w, ret |-> FALSE]
    ELSE LET m == manual_mode_monitor_sensor_health(w)
         IN  IF ~m.ret THEN m
             ELSE IF m.w.mm.esc_armed /\ ~manual_mode_is_esc_responding(m.w)
                  THEN [w |-> m.w, ret |-> FALSE]
                  ELSE [w |-> m.w, ret |-> TRUE]

manual_mode_update(w) ==
    IF w.mm.state = "IDLE" THEN w
    ELSE LET w1 == [w EXCEPT !.mm.current_speed_ms = w.hw.current_speed_ms,
                             !.mm.esc_responding = w.hw.esc_armed]
             s  == manual_mode_is_operation_safe(w1)
         IN  IF ~s.ret THEN manual_mode_emergency_stop(s.w) ELSE s.w

-----------------------------------------------------------------------------
(* wire_learning_mode.cpp.  The record holds g_learning_progress, the speed *)
(* test and detection statics and g_learning_results; times that are only   *)
(* logged, the detection method names and the status message are left out.  *)
(* Lengths are in units of 0.1 mm, so that a wheel turn is a whole number.  *)

WIRE_LEARNING_START_SPEED_MS == 100
WIRE_LEARNING_MAX_SPEED_MS == 1000
WIRE_LEARNING_SPEED_INCREMENT == 100
WIRE_LEARNING_TIMEOUT_S == 60
WIRE_LENGTH_TOLERANCE_PERCENT == 5
MIN_WIRE_LENGTH_M == 2
MAX_WIRE_LENGTH_M == 2000
WIRE_END_IMPACT_THRESHOLD_G == 100
WIRE_END_HALL_TIMEOUT_MS == 2000
WIRE_END_SPEED_DROP_PERCENT == 70
LEARNING_MIN_HALL_PULSES == 10
LEARNING_DIRECTION_PAUSE_MS == 2000

\* g_learning_progress = {0} and the initializers of the other statics.
InitLearningProgress ==
    [ state |-> "IDLE", learning_start_time |-> 0,
      current_direction_forward |-> FALSE, direction_start_rotations |-> 0,
      forward_rotations |-> 0, reverse_rotations |-> 0,
      calculated_wire_length_m |-> 0, learning_successful |-> FALSE,
      error_message |-> "",
      g_current_test_speed |-> WIRE_LEARNING_START_SPEED_MS,
      g_hall_pulses_at_speed_start |-> 0, g_speed_validated |-> FALSE,
      g_consecutive_hall_timeouts |-> 0,
      g_speed_history |-> [i \in 0..4 |-> 0], g_speed_history_index |-> 0,
      g_learning_results |-> [complete |-> FALSE, wire_length_m |-> 0] ]

wire_learning_mode_is_active(w) ==
    /\ Ord(WireLearningStates, w.wl.state) > Ord(WireLearningStates, "IDLE")
    /\ Ord(WireLearningStates, w.wl.state) < Ord(WireLearningStates, "COMPLETE")

wire_learning_validate_prerequisites(w) ==
    /\ mode_coordinator_are_sensors_validated(w)
    /\ w.hw.system_initialized /\ w.hw.hall_sensor_healthy
    /\ w.sh.system_ready

start_speed_test(w, speed_ms) ==
    LET r == hardware_set_motor_speed(w.hw, speed_ms, w.wl.current_direction_forward)
    IN  [w |-> [w EXCEPT !.hw = r.hw,
                         !.wl = [w.wl EXCEPT
                                   !.g_current_test_speed = speed_ms,
                                   !.g_speed_validated = FALSE,
                                   !.g_hall_pulses_at_speed_start =
                                       hardware_get_rotation_count(w.hw)]],
         ret |-> r.ret]

validate_current_speed(w) ==
    LET hall_pulses == hardware_get_rotation_count(w.hw) - w.wl.g_hall_pulses_at_speed_start
    IN  IF hall_pulses >= LEARNING_MIN_HALL_PULSES
        THEN [w |-> [w EXCEPT !.wl.g_speed_validated = TRUE], ret |-> TRUE]
        ELSE [w |-> w, ret |-> FALSE]

progress_to_next_speed(w) ==
    IF w.wl.g_current_test_speed >= WIRE_LEARNING_MAX_SPEED_MS THEN w
    ELSE LET sum == w.wl.g_current_test_speed + WIRE_LEARNING_SPEED_INCREMENT
             next_speed == IF sum > WIRE_LEARNING_MAX_SPEED_MS
                           THEN WIRE_LEARNING_MAX_SPEED_MS ELSE sum
         IN  start_speed_test([w EXCEPT !.delay = @ + 500], next_speed).w

wire_learning_detect_impact(w) == w.sh.total_accel_g > WIRE_END_IMPACT_THRESHOLD_G

wire_learning_detect_hall_timeout(w) ==
    IF hardware_get_time_since_last_hall_pulse(w.hw) > WIRE_END_HALL_TIMEOUT_MS
    THEN IF w.wl.g_consecutive_hall_timeouts + 1 >= 3
         THEN [w |-> [w EXCEPT !.wl.g_consecutive_hall_timeouts = 0], ret |-> TRUE]
         ELSE [w |-> [w EXCEPT !.wl.g_consecutive_hall_timeouts = @ + 1], ret |-> FALSE]
    ELSE [w |-> [w EXCEPT !.wl.g_consecutive_hall_timeouts = 0], ret |-> FALSE]

\* avg_speed < g_current_test_speed * 0.7, with the average's division by 5
\* and the percentage's by 100 multiplied out.
wire_learning_detect_speed_drop(w) ==
    LET hist == [w.wl.g_speed_history EXCEPT ![w.wl.g_speed_history_index] =
                                                 w.hw.current_speed_ms]
        sum  == hist[0] + hist[1] + hist[2] + hist[3] + hist[4]
    IN  [w |-> [w EXCEPT !.wl.g_speed_history = hist,
                         !.wl.g_speed_history_index = (@ + 1) % 5],
         ret |-> /\ w.wl.g_current_test_speed > 200
                 /\ sum * 100 < w.wl.g_current_test_speed * WIRE_END_SPEED_DROP_PERCENT * 5]

wire_learning_get_best_detection_method(w) ==
    IF wire_learning_detect_impact(w) THEN [w |-> w, ret |-> "IMPACT_DETECTED"]
    ELSE LET d == wire_learning_detect_speed_drop(w)
         IN  IF d.ret THEN [w |-> d.w, ret |-> "SPEED_DROP"]
             ELSE LET h == wire_learning_detect_hall_timeout(d.w)
                  IN  [w |-> h.w, ret |-> IF h.ret THEN "HALL_TIMEOUT" ELSE "NONE"]

wire_learning_reset_detection(w) ==
    [w EXCEPT !.wl.g_consecutive_hall_timeouts = 0,
              !.wl.g_speed_history_index = 0,
              !.wl.g_speed_history = [i \in 0..4 |-> 0]]

\* The coasting calibration of the forward run needs a test speed of 4 m/s,
\* which the speed ramp (at most WIRE_LEARNING_MAX_SPEED_MS) never reaches.
handle_forward_direction(w) ==
    IF ~w.wl.g_speed_validated /\ w.wl.g_current_test_speed = 0
    THEN start_speed_test(w, WIRE_LEARNING_START_SPEED_MS).w
    ELSE IF w.wl.g_speed_validated THEN w
    ELSE LET v == validate_current_speed(w)
             d == wire_learning_get_best_detection_method(v.w)
             forward_rotations ==
                 hardware_get_rotation_count(d.w.hw) - d.w.wl.direction_start_rotations
             forward_distance_m == hardware_rotations_to_distance(forward_rotations)
             w1 == [d.w EXCEPT !.wl.forward_rotations = forward_rotations]
             hw2 == hardware_emergency_stop(w1.hw)
         IN  IF v.ret THEN progress_to_next_speed(v.w)
             ELSE IF d.ret = "NONE" THEN d.w
             ELSE IF \/ forward_distance_m < Metres(MIN_WIRE_LENGTH_M)
                     \/ forward_distance_m > Metres(MAX_WIRE_LENGTH_M)
             THEN [w1 EXCEPT !.wl.error_message = "Wire length out of valid range",
                             !.wl.state = "FAILED"]
             ELSE wire_learning_reset_detection(
                      [w1 EXCEPT !.hw = hw2,
                                 !.delay = @ + LEARNING_DIRECTION_PAUSE_MS,
                                 !.wl.state = "REVERSE_DIRECTION",
                                 !.wl.current_direction_forward = FALSE,
                                 !.wl.direction_start_rotations =
                                     hardware_get_rotation_count(hw2),
                                 !.wl.g_current_test_speed = 0,
                                 !.wl.g_speed_validated = FALSE])

handle_reverse_direction(w) ==
    IF ~w.wl.g_speed_validated /\ w.wl.g_current_test_speed = 0
    THEN start_speed_test(w, WIRE_LEARNING_START_SPEED_MS).w
    ELSE IF w.wl.g_speed_validated THEN w
    ELSE LET v == validate_current_speed(w)
             d == wire_learning_get_best_detection_method(v.w)
         IN  IF v.ret THEN progress_to_next_speed(v.w)
             ELSE IF d.ret = "NONE" THEN d.w
             ELSE [d.w EXCEPT !.wl.reverse_rotations =
                                  hardware_get_rotation_count(d.w.hw)
                                      - d.w.wl.direction_start_rotations,
                              !.wl.state = "CALCULATING_RESULTS"]

\* calculate_final_results with the tolerance comparison the wrong way round.
calculate_final_results_m11(w) ==
    LET forward_distance_m == hardware_rotations_to_distance(w.wl.forward_rotations)
        reverse_distance_m == hardware_rotations_to_distance(w.wl.reverse_rotations)
        calculated == (forward_distance_m + reverse_distance_m) \div 2
        difference == Abs(forward_distance_m - reverse_distance_m)
        success == /\ calculated > 0
                   /\ difference * (100 \div WIRE_LENGTH_TOLERANCE_PERCENT) >= calculated
        results == [complete |-> TRUE, wire_length_m |-> calculated]
        w1 == [w EXCEPT !.wl.calculated_wire_length_m = calculated]
        w2 == IF success
              THEN [mode_coordinator_set_wire_learning_results(w1, results) EXCEPT
                        !.wl.g_learning_results = results,
                        !.wl.learning_successful = TRUE,
                        !.wl.state = "COMPLETE"]
              ELSE [w1 EXCEPT !.wl.learning_successful = FALSE,
                              !.wl.state = "FAILED",
                              !.wl.error_message = "Wire learning failed: difference > tolerance"]
    IN  [w2 EXCEPT !.hw = hardware_emergency_stop(w2.hw)]

\* calculate_final_results publishing the result before the tolerance check.
calculate_final_results_m23(w) ==
    LET forward_distance_m == hardware_rotations_to_distance(w.wl.forward_rotations)
        reverse_distance_m == hardware_rotations_to_distance(w.wl.reverse_rotations)
        calculated == (forward_distance_m + reverse_distance_m) \div 2
        difference == Abs(forward_distance_m - reverse_distance_m)
        success == /\ calculated > 0
                   /\ difference * (100 \div WIRE_LENGTH_TOLERANCE_PERCENT) <= calculated
        results == [complete |-> TRUE, wire_length_m |-> calculated]
        w1 == mode_coordinator_set_wire_learning_results(
                  [w EXCEPT !.wl.calculated_wire_length_m = calculated], results)
        w2 == IF success
              THEN [w1 EXCEPT !.wl.g_learning_results = results,
                              !.wl.learning_successful = TRUE,
                              !.wl.state = "COMPLETE"]
              ELSE [w1 EXCEPT !.wl.learning_successful = FALSE,
                              !.wl.state = "FAILED",
                              !.wl.error_message = "Wire learning failed: difference > tolerance"]
    IN  [w2 EXCEPT !.hw = hardware_emergency_stop(w2.hw)]

\* length_difference_percent <= WIRE_LENGTH_TOLERANCE_PERCENT, where the
\* percentage is difference / calculated_wire_length_m * 100: the division is
\* multiplied out, and 100 / 5 taken first to stay within TLC's integers.  A
\* calculated length of 0 gives NaN in the code, which compares false.
calculate_final_results(w) ==
    LET forward_distance_m == hardware_rotations_to_distance(w.wl.forward_rotations)
        reverse_distance_m == hardware_rotations_to_distance(w.wl.reverse_rotations)
        calculated == (forward_distance_m + reverse_distance_m) \div 2
        difference == Abs(forward_distance_m - reverse_distance_m)
        success == /\ calculated > 0
                   /\ difference * (100 \div WIRE_LENGTH_TOLERANCE_PERCENT) <= calculated
        results == [complete |-> TRUE, wire_length_m |-> calculated]
        w1 == [w EXCEPT !.wl.calculated_wire_length_m = calculated]
        w2 == IF success
              THEN [mode_coordinator_set_wire_learning_results(w1, results) EXCEPT
                        !.wl.g_learning_results = results,
                        !.wl.learning_successful = TRUE,
                        !.wl.state = "COMPLETE"]
              ELSE [w1 EXCEPT !.wl.learning_successful = FALSE,
                              !.wl.state = "FAILED",
                              !.wl.error_message = "Wire learning failed: difference > tolerance"]
    IN  [w2 EXCEPT !.hw = hardware_emergency_stop(w2.hw)]

\* memset of g_learning_progress; the file's other statics keep their values.
ClearedProgress(wl, state) ==
    [InitLearningProgress EXCEPT
        !.state = state, !.learning_start_time = now,
        !.g_current_test_speed = wl.g_current_test_speed,
        !.g_hall_pulses_at_speed_start = wl.g_hall_pulses_at_speed_start,
        !.g_speed_validated = wl.g_speed_validated,
        !.g_consecutive_hall_timeouts = wl.g_consecutive_hall_timeouts,
        !.g_speed_history = wl.g_speed_history,
        !.g_speed_history_index = wl.g_speed_history_index,
        !.g_learning_results = wl.g_learning_results]

wire_learning_mode_start(w) ==
    IF ~wire_learning_validate_prerequisites(w)
    THEN [w |-> w, ret |-> "ESP_ERR_INVALID_STATE"]
    ELSE LET r == IF w.hw.esc_armed THEN [hw |-> w.hw, ret |-> "ESP_OK"]
                  ELSE hardware_esc_arm(w.hw)
             wait == IF w.hw.esc_armed THEN 0 ELSE 4000
         IN  IF r.ret # "ESP_OK"
             THEN [w |-> [w EXCEPT !.hw = r.hw,
                                   !.wl = [ClearedProgress(w.wl, "FAILED") EXCEPT
                                              !.error_message = "Failed to arm ESC"]],
                   ret |-> r.ret]
             ELSE [w |-> wire_learning_reset_detection(
                            [w EXCEPT
                               !.delay = @ + wait,
                               !.hw = hardware_reset_rotation_count(hardware_reset_position(r.hw)),
                               !.wl = [ClearedProgress(w.wl, "FORWARD_DIRECTION") EXCEPT
                                          !.current_direction_forward = TRUE,
                                          !.g_current_test_speed = 0,
                                          !.g_speed_validated = FALSE]]),
                   ret |-> "ESP_OK"]

wire_learning_mode_stop(w, immediate) ==
    [w EXCEPT !.hw = hardware_emergency_stop(w.hw),
              !.wl.state = IF immediate THEN "IDLE" ELSE "STOPPING"]

\* wire_learning_mode_update comparing the elapsed milliseconds with the
\* timeout in microseconds.
wire_learning_mode_update_m39(w) ==
    IF /\ wire_learning_mode_is_active(w)
       /\ now - w.wl.learning_start_time > WIRE_LEARNING_TIMEOUT_S * 1000000
    THEN [w EXCEPT !.wl.error_message = "Wire learning timeout",
                   !.wl.state = "FAILED",
                   !.hw = hardware_emergency_stop(w.hw)]
    ELSE IF w.wl.state = "INITIALIZING" THEN [w EXCEPT !.wl.state = "FORWARD_DIRECTION"]
    ELSE IF w.wl.state = "FORWARD_DIRECTION" THEN handle_forward_direction(w)
    ELSE IF w.wl.state = "REVERSE_DIRECTION" THEN handle_reverse_direction(w)
    ELSE IF w.wl.state = "CALCULATING_RESULTS" THEN calculate_final_results(w)
    ELSE w

\* wire_learning_mode_update: the overall timeout, then the state's handler.
wire_learning_mode_update(w) ==
    IF /\ wire_learning_mode_is_active(w)
       /\ now - w.wl.learning_start_time > WIRE_LEARNING_TIMEOUT_S * 1000
    THEN [w EXCEPT !.wl.error_message = "Wire learning timeout",
                   !.wl.state = "FAILED",
                   !.hw = hardware_emergency_stop(w.hw)]
    ELSE IF w.wl.state = "INITIALIZING" THEN [w EXCEPT !.wl.state = "FORWARD_DIRECTION"]
    ELSE IF w.wl.state = "FORWARD_DIRECTION" THEN handle_forward_direction(w)
    ELSE IF w.wl.state = "REVERSE_DIRECTION" THEN handle_reverse_direction(w)
    ELSE IF w.wl.state = "CALCULATING_RESULTS" THEN calculate_final_results(w)
    ELSE w

-----------------------------------------------------------------------------
(* automatic_mode.cpp: start, stop, interrupt, update and the activity test. *)
(* The record keeps the state, the arming flag and finishing_current_run;    *)
(* the two interruption flags, which only the cycling handlers read, are    *)
(* left out.                                                                 *)

AUTO_MODE_MIN_WIRE_LENGTH_M == 2

AUTO_MODE_START_SPEED_MS == 100
AUTO_COASTING_CALIBRATION_SPEED == 5000
COAST_DETECTION_SPEED_MS == 100
AUTO_MODE_MAX_IMPACT_G == 50
\* AUTO_COASTING_MIN_DISTANCE_M (0.5 m) and AUTO_COASTING_MAX_DISTANCE_M, in mm.
AUTO_COASTING_MIN_DISTANCE_MM == 500
AUTO_COASTING_MAX_DISTANCE_MM == 50000

\* g_auto_progress with the file's coasting statics and the function static
\* calibration_motor_stopped.  Of the coasting record the times and the two
\* values derived from them are left out.  cycle_data.current_direction_forward
\* is never assigned: it stays false.
InitAutoProgress ==
    [ state |-> "IDLE", esc_auto_armed |-> FALSE, finishing_current_run |-> FALSE,
      coasting |-> [ calibrated |-> FALSE, calibration_speed_ms |-> 0,
                     coasting_distance_m |-> 0, calibration_rotations |-> 0,
                     calibration_successful |-> FALSE ],
      g_coasting_start_rotations |-> 0, g_coasting_start_speed |-> 0,
      calibration_motor_stopped |-> FALSE ]

automatic_mode_is_active(w) ==
    /\ Ord(AutoStates, w.au.state) > Ord(AutoStates, "IDLE")
    /\ Ord(AutoStates, w.au.state) < Ord(AutoStates, "COMPLETE")

automatic_mode_validate_prerequisites_m16(w) ==
    IF ~mode_coordinator_are_sensors_validated(w) THEN "ESP_ERR_INVALID_STATE"
    ELSE IF ~w.ms.wire_learning_complete THEN "ESP_ERR_INVALID_STATE"
    ELSE "ESP_OK"

\* The esp_err_t of automatic_mode_validate_prerequisites.
automatic_mode_validate_prerequisites(w) ==
    IF ~mode_coordinator_are_sensors_validated(w) THEN "ESP_ERR_INVALID_STATE"
    ELSE IF ~w.ms.wire_learning_complete THEN "ESP_ERR_INVALID_STATE"
    ELSE IF w.ms.wire_length_m < Metres(AUTO_MODE_MIN_WIRE_LENGTH_M) THEN "ESP_ERR_INVALID_SIZE"
    ELSE "ESP_OK"

\* automatic_mode_is_operation_safe: the coordinator's check and no other.
automatic_mode_is_operation_safe(w) == mode_coordinator_is_motion_safe(w)

automatic_mode_auto_arm_esc(w) ==
    IF w.hw.esc_armed
    THEN [w |-> [w EXCEPT !.au.esc_auto_armed = TRUE], ret |-> "ESP_OK"]
    ELSE LET r == hardware_esc_arm(w.hw)
         IN  [w |-> [w EXCEPT !.hw = r.hw,
                              !.delay = IF r.ret = "ESP_OK" THEN @ + 4000 ELSE @,
                              !.au.esc_auto_armed = IF r.ret = "ESP_OK" THEN TRUE ELSE @],
              ret |-> r.ret]

automatic_mode_auto_disarm_esc(w) ==
    [w EXCEPT !.hw = hardware_esc_disarm(w.hw), !.au.esc_auto_armed = FALSE]

automatic_mode_start(w) ==
    LET pre == automatic_mode_validate_prerequisites(w)
    IN  IF pre # "ESP_OK" THEN [w |-> w, ret |-> pre]
        ELSE LET w1 == [w EXCEPT !.au = [w.au EXCEPT
                                            !.state = "ARMING_ESC",
                                            !.finishing_current_run = FALSE]]
                 r  == automatic_mode_auto_arm_esc(w1)
             IN  IF r.ret # "ESP_OK"
                 THEN [w |-> [r.w EXCEPT !.au.state = "ERROR"], ret |-> r.ret]
                 ELSE r

automatic_mode_stop_graceful(w) ==
    [w EXCEPT !.au.finishing_current_run = TRUE]

automatic_mode_interrupt(w) ==
    automatic_mode_auto_disarm_esc(
        [w EXCEPT !.hw = hardware_emergency_stop(w.hw),
                  !.au = [w.au EXCEPT !.state = "STOPPING_INTERRUPTED",
                                      !.finishing_current_run = FALSE]])

\* automatic_mode_accelerate_to_speed: the ramp starts at the start speed.
automatic_mode_accelerate_to_speed(w, target_speed) ==
    LET r == hardware_set_motor_speed(w.hw, AUTO_MODE_START_SPEED_MS, FALSE)
    IN  [w |-> [w EXCEPT !.hw = r.hw], ret |-> r.ret]

automatic_mode_start_coasting_calibration(w) ==
    IF w.au.coasting.calibrated THEN [w |-> w, ret |-> "ESP_OK"]
    ELSE automatic_mode_accelerate_to_speed(
             [w EXCEPT !.au.state = "COASTING_CALIBRATION"],
             AUTO_COASTING_CALIBRATION_SPEED)

\* mode_coordinator_set_coasting_data: the coordinator's copy of the result.
mode_coordinator_set_coasting_data(w, calibrated) ==
    [w EXCEPT !.ms.coasting_calibrated = calibrated]

\* automatic_mode_update_coasting_calibration(speed, position): below the
\* calibration speed less 0.2 m/s nothing is done; the first call at speed
\* stops the motor; then, once the speed is at most 0.1 m/s, the coasted
\* distance is computed and checked.
automatic_mode_update_coasting_calibration(w, speed) ==
    IF speed < AUTO_COASTING_CALIBRATION_SPEED - 200
    THEN [w |-> w, ret |-> "ESP_OK"]
    ELSE IF ~w.au.calibration_motor_stopped
    THEN [w |-> [w EXCEPT !.hw = hardware_set_motor_speed(w.hw, 0, FALSE).hw,
                          !.au = [w.au EXCEPT
                              !.g_coasting_start_rotations = hardware_get_rotation_count(w.hw),
                              !.g_coasting_start_speed = speed,
                              !.calibration_motor_stopped = TRUE]],
          ret |-> "ESP_OK"]
    ELSE IF speed > COAST_DETECTION_SPEED_MS
    THEN [w |-> w, ret |-> "ESP_OK"]
    ELSE LET rotations == hardware_get_rotation_count(w.hw) - w.au.g_coasting_start_rotations
             distance  == hardware_rotations_to_distance(rotations)
             measured  == [ calibrated |-> TRUE,
                            calibration_speed_ms |-> w.au.g_coasting_start_speed,
                            coasting_distance_m |-> distance,
                            calibration_rotations |-> rotations,
                            calibration_successful |-> TRUE ]
         IN  IF \/ distance < AUTO_COASTING_MIN_DISTANCE_MM * 10
                \/ distance > AUTO_COASTING_MAX_DISTANCE_MM * 10
             THEN [w |-> [w EXCEPT !.au.coasting = [measured EXCEPT
                                       !.calibration_successful = FALSE]],
                   ret |-> "ESP_ERR_INVALID_SIZE"]
             ELSE [w |-> mode_coordinator_set_coasting_data(
                             [w EXCEPT !.au = [w.au EXCEPT
                                 !.coasting = measured,
                                 !.calibration_motor_stopped = FALSE]], TRUE),
                   ret |-> "ESP_OK"]

\* automatic_mode_is_at_wire_end: impact, then a single Hall silence of more
\* than 2 s, then the measured speed below 0.2 m/s with a target above
\* 0.5 m/s.  current_target_speed is g_auto_progress.current_target_speed.
automatic_mode_is_at_wire_end(w, current_target_speed) ==
    \/ w.sh.total_accel_g > AUTO_MODE_MAX_IMPACT_G
    \/ hardware_get_time_since_last_hall_pulse(w.hw) > 2000
    \/ (current_target_speed > 500 /\ hardware_get_current_speed(w.hw) < 200)

\* automatic_mode_update acts in the two coasting states only; the coasting
\* state itself is entered nowhere, every other state is left as it is.
automatic_mode_update(w) ==
    IF w.au.state = "COASTING_CALIBRATION"
    THEN automatic_mode_update_coasting_calibration(w, hardware_get_current_speed(w.hw)).w
    ELSE w

-----------------------------------------------------------------------------
(* mode_coordinator.cpp.  The record holds g_mode_status and the file's     *)
(* other statics; messages, mode_start_time and the numeric learning and    *)
(* coasting results other than the wire length are left out.                *)

SENSOR_VALIDATION_TIMEOUT_MS == 60000
MAX_SYSTEM_ERRORS == 10
ERROR_RESET_TIME_MS == 30000

\* Wire length (m) of a learning result found in NVS at boot.
StoredWireLength == 10

InitModeStatus(stored) ==
    [ current_mode |-> "NONE",
      sensor_validation_state |-> "NOT_STARTED",
      g_sensor_validation_start_time |-> 0,
      g_hall_validation_user_confirmed |-> FALSE,
      g_accel_validation_user_confirmed |-> FALSE,
      sensors_validated |-> FALSE,
      hall_validation_complete |-> FALSE, accel_validation_complete |-> FALSE,
      wire_learning_availability |-> "BLOCKED_SENSORS_NOT_VALIDATED",
      automatic_availability |-> "BLOCKED_SENSORS_NOT_VALIDATED",
      manual_availability |-> "BLOCKED_SENSORS_NOT_VALIDATED",
      system_healthy |-> TRUE,
      g_error_count |-> 0, g_last_error_reset_time |-> 0,
      wire_learning_complete |-> stored,
      wire_length_m |-> IF stored THEN Metres(StoredWireLength) ELSE 0,
      coasting_calibrated |-> FALSE ]

\* update_sensor_validation_state in which a timeout also hits a completed
\* validation and withdraws it.
update_sensor_validation_state_m5(w) ==
    LET st == w.ms.sensor_validation_state
        m1 == CASE st = "IN_PROGRESS" ->
                     IF w.sh.wheel_rotation_detected /\ ~w.ms.g_hall_validation_user_confirmed
                     THEN [w.ms EXCEPT !.sensor_validation_state = "HALL_PENDING"]
                     ELSE w.ms
                [] st = "HALL_PENDING" ->
                     IF w.ms.g_hall_validation_user_confirmed
                     THEN [w.ms EXCEPT !.sensor_validation_state = "ACCEL_PENDING",
                                       !.hall_validation_complete = TRUE]
                     ELSE w.ms
                [] st = "ACCEL_PENDING" ->
                     IF w.sh.trolley_shake_detected /\ ~w.ms.g_accel_validation_user_confirmed
                     THEN w.ms
                     ELSE IF w.ms.g_accel_validation_user_confirmed
                     THEN [w.ms EXCEPT !.sensor_validation_state = "COMPLETE",
                                       !.accel_validation_complete = TRUE,
                                       !.sensors_validated = TRUE]
                     ELSE w.ms
                [] OTHER -> w.ms
        o  == Ord(ValidationStates, m1.sensor_validation_state)
        m2 == IF /\ o > Ord(ValidationStates, "NOT_STARTED")
                 /\ o <= Ord(ValidationStates, "COMPLETE")
                 /\ now - m1.g_sensor_validation_start_time > SENSOR_VALIDATION_TIMEOUT_MS
              THEN [m1 EXCEPT !.sensor_validation_state = "FAILED",
                              !.sensors_validated = FALSE]
              ELSE m1
    IN  [w EXCEPT !.ms = m2]

update_sensor_validation_state(w) ==
    LET st == w.ms.sensor_validation_state
        m1 == CASE st = "IN_PROGRESS" ->
                     IF w.sh.wheel_rotation_detected /\ ~w.ms.g_hall_validation_user_confirmed
                     THEN [w.ms EXCEPT !.sensor_validation_state = "HALL_PENDING"]
                     ELSE w.ms
                [] st = "HALL_PENDING" ->
                     IF w.ms.g_hall_validation_user_confirmed
                     THEN [w.ms EXCEPT !.sensor_validation_state = "ACCEL_PENDING",
                                       !.hall_validation_complete = TRUE]
                     ELSE w.ms
                [] st = "ACCEL_PENDING" ->
                     IF w.sh.trolley_shake_detected /\ ~w.ms.g_accel_validation_user_confirmed
                     THEN w.ms
                     ELSE IF w.ms.g_accel_validation_user_confirmed
                     THEN [w.ms EXCEPT !.sensor_validation_state = "COMPLETE",
                                       !.accel_validation_complete = TRUE,
                                       !.sensors_validated = TRUE]
                     ELSE w.ms
                [] OTHER -> w.ms
        o  == Ord(ValidationStates, m1.sensor_validation_state)
        m2 == IF /\ o > Ord(ValidationStates, "NOT_STARTED")
                 /\ o < Ord(ValidationStates, "COMPLETE")
                 /\ now - m1.g_sensor_validation_start_time > SENSOR_VALIDATION_TIMEOUT_MS
              THEN [m1 EXCEPT !.sensor_validation_state = "FAILED"]
              ELSE m1
    IN  [w EXCEPT !.ms = m2]

update_mode_availability(w) ==
    LET wla == IF ~w.ms.sensors_validated THEN "BLOCKED_SENSORS_NOT_VALIDATED"
               ELSE IF wire_learning_mode_is_active(w) THEN "ACTIVE"
               ELSE IF ~w.ms.system_healthy THEN "BLOCKED_SYSTEM_ERROR"
               ELSE "AVAILABLE"
        aa  == IF ~w.ms.sensors_validated THEN "BLOCKED_SENSORS_NOT_VALIDATED"
               ELSE IF ~w.ms.wire_learning_complete THEN "BLOCKED_WIRE_LEARNING_REQUIRED"
               ELSE IF automatic_mode_is_active(w) THEN "ACTIVE"
               ELSE IF ~w.ms.system_healthy THEN "BLOCKED_SYSTEM_ERROR"
               ELSE "AVAILABLE"
        ma  == IF ~w.ms.sensors_validated THEN "BLOCKED_SENSORS_NOT_VALIDATED"
               ELSE IF manual_mode_is_active(w) THEN "ACTIVE"
               ELSE IF ~w.ms.system_healthy THEN "BLOCKED_SYSTEM_ERROR"
               ELSE "AVAILABLE"
    IN  [w EXCEPT !.ms = [w.ms EXCEPT !.wire_learning_availability = wla,
                                      !.automatic_availability = aa,
                                      !.manual_availability = ma]]

update_current_mode_status(w) ==
    [w EXCEPT !.ms.current_mode =
        IF wire_learning_mode_is_active(w) THEN "WIRE_LEARNING"
        ELSE IF automatic_mode_is_active(w) THEN "AUTOMATIC"
        ELSE IF manual_mode_is_active(w) THEN "MANUAL"
        ELSE "NONE"]

mode_coordinator_is_mode_available(w, mode) ==
    CASE mode = "WIRE_LEARNING" -> w.ms.wire_learning_availability = "AVAILABLE"
      [] mode = "AUTOMATIC"     -> w.ms.automatic_availability = "AVAILABLE"
      [] mode = "MANUAL"        -> w.ms.manual_availability = "AVAILABLE"
      [] OTHER                  -> FALSE

mode_coordinator_update(w) ==
    LET w1 == update_current_mode_status(
                  update_mode_availability(update_sensor_validation_state(w)))
        healthy == /\ w1.hw.system_initialized
                   /\ w1.sh.system_ready
                   /\ w1.ms.g_error_count < MAX_SYSTEM_ERRORS
        expired == /\ w1.ms.g_error_count > 0
                   /\ now - w1.ms.g_last_error_reset_time > ERROR_RESET_TIME_MS
    IN  [w1 EXCEPT !.ms = [w1.ms EXCEPT !.system_healthy = healthy,
                                        !.g_error_count = IF expired THEN 0 ELSE @]]

mode_coordinator_start_sensor_validation(w) ==
    [w EXCEPT !.ms = [w.ms EXCEPT !.sensor_validation_state = "IN_PROGRESS",
                                  !.g_sensor_validation_start_time = now,
                                  !.g_hall_validation_user_confirmed = FALSE,
                                  !.g_accel_validation_user_confirmed = FALSE,
                                  !.sensors_validated = FALSE,
                                  !.hall_validation_complete = FALSE,
                                  !.accel_validation_complete = FALSE]]

mode_coordinator_confirm_hall_validation(w) ==
    IF w.ms.sensor_validation_state # "HALL_PENDING"
    THEN [w |-> w, ret |-> "ESP_ERR_INVALID_STATE"]
    ELSE [w |-> [w EXCEPT !.ms.g_hall_validation_user_confirmed = TRUE], ret |-> "ESP_OK"]

mode_coordinator_confirm_accel_validation(w) ==
    IF w.ms.sensor_validation_state # "ACCEL_PENDING"
    THEN [w |-> w, ret |-> "ESP_ERR_INVALID_STATE"]
    ELSE [w |-> [w EXCEPT !.ms.g_accel_validation_user_confirmed = TRUE], ret |-> "ESP_OK"]

mode_coordinator_reset_sensor_validation(w) ==
    [w EXCEPT !.ms = [w.ms EXCEPT !.sensor_validation_state = "NOT_STARTED",
                                  !.g_hall_validation_user_confirmed = FALSE,
                                  !.g_accel_validation_user_confirmed = FALSE,
                                  !.sensors_validated = FALSE,
                                  !.hall_validation_complete = FALSE,
                                  !.accel_validation_complete = FALSE],
              !.sh = sensor_health_reset_validation(w.sh)]

mode_coordinator_stop_current_mode(w, immediate) ==
    LET cur == w.ms.current_mode
        w1  == CASE cur = "WIRE_LEARNING" -> wire_learning_mode_stop(w, immediate)
                 [] cur = "AUTOMATIC" ->
                        IF immediate THEN automatic_mode_interrupt(w)
                        ELSE automatic_mode_stop_graceful(w)
                 [] cur = "MANUAL" -> manual_mode_stop(w)
                 [] OTHER -> w
    IN  [w1 EXCEPT !.ms.current_mode = "NONE"]

mode_coordinator_activate_wire_learning(w) ==
    IF ~mode_coordinator_is_mode_available(w, "WIRE_LEARNING")
    THEN [w |-> w, ret |-> "ESP_ERR_INVALID_STATE"]
    ELSE wire_learning_mode_start(mode_coordinator_stop_current_mode(w, TRUE))

mode_coordinator_activate_automatic(w) ==
    IF ~mode_coordinator_is_mode_available(w, "AUTOMATIC")
    THEN [w |-> w, ret |-> "ESP_ERR_INVALID_STATE"]
    ELSE automatic_mode_start(mode_coordinator_stop_current_mode(w, TRUE))

mode_coordinator_activate_manual(w) ==
    IF ~mode_coordinator_is_mode_available(w, "MANUAL")
    THEN [w |-> w, ret |-> "ESP_ERR_INVALID_STATE"]
    ELSE manual_mode_start(mode_coordinator_stop_current_mode(w, TRUE))

mode_coordinator_emergency_stop_m15(w) ==
    LET w1 == [w EXCEPT !.hw = hardware_emergency_stop(w.hw)]
        w2 == automatic_mode_interrupt(manual_mode_stop(wire_learning_mode_stop(w1, TRUE)))
    IN  [w2 EXCEPT !.ms.current_mode = "NONE"]

mode_coordinator_emergency_stop(w) ==
    LET w1 == [w EXCEPT !.hw = hardware_emergency_stop(w.hw)]
        w2 == manual_mode_stop(automatic_mode_interrupt(wire_learning_mode_stop(w1, TRUE)))
    IN  [w2 EXCEPT !.ms.current_mode = "NONE"]

mode_coordinator_reset_system(w) ==
    LET w1 == mode_coordinator_emergency_stop(w)
        w2 == [w1 EXCEPT !.ms = [w1.ms EXCEPT !.wire_learning_complete = FALSE,
                                              !.wire_length_m = 0,
                                              !.coasting_calibrated = FALSE]]
        w3 == mode_coordinator_reset_sensor_validation(w2)
    IN  [w3 EXCEPT !.ms.g_error_count = 0,
                   !.hw = hardware_reset_position(w3.hw)]

mode_coordinator_report_error_m19(w) ==
    LET w1 == [w EXCEPT !.ms.g_error_count = @ + 1,
                        !.ms.g_last_error_reset_time = now]
    IN  IF w1.ms.g_error_count > MAX_SYSTEM_ERRORS
        THEN [mode_coordinator_emergency_stop(w1) EXCEPT !.ms.system_healthy = FALSE]
        ELSE w1

mode_coordinator_report_error_m20(w) ==
    LET w1 == [w EXCEPT !.ms.g_error_count = @ + 1]
    IN  IF w1.ms.g_error_count >= MAX_SYSTEM_ERRORS
        THEN [mode_coordinator_emergency_stop(w1) EXCEPT !.ms.system_healthy = FALSE]
        ELSE w1

\* mode_coordinator_report_error with a message (NULL is refused before
\* anything is counted).
mode_coordinator_report_error(w) ==
    LET w1 == [w EXCEPT !.ms.g_error_count = @ + 1,
                        !.ms.g_last_error_reset_time = now]
    IN  IF w1.ms.g_error_count >= MAX_SYSTEM_ERRORS
        THEN [mode_coordinator_emergency_stop(w1) EXCEPT !.ms.system_healthy = FALSE]
        ELSE w1

-----------------------------------------------------------------------------
(* Values of the other components while only hardware_control runs *)

NoSensorHealth == [init_state |-> "START"]
NoModeStatus   == [current_mode |-> "NONE"]
NoEngine       == [state |-> "IDLE"]
NoRate         == [count |-> 0]

NoErrSeen == [ret |-> "none", err |-> "none"]
FaultKinds == {"uninit", "range", "disarmed"}

\* Which single fault a call to hardware_set_motor_speed exercises.
FaultKind(hw, speed_ms) ==
    IF ~hw.system_initialized /\ hardware_is_speed_valid(speed_ms) THEN "uninit"
    ELSE IF hw.system_initialized /\ hw.esc_armed /\ ~hardware_is_speed_valid(speed_ms)
         THEN "range"
    ELSE IF hw.system_initialized /\ ~hw.esc_armed /\ hardware_is_speed_valid(speed_ms)
         THEN "disarmed"
    ELSE "other"

-----------------------------------------------------------------------------
(* Specification SpecHw: hardware_control on its own *)

InitHw ==
    /\ now = 0
    /\ g_hw_status = InitHwStatus
    /\ g_hall_event_queue = << >>
    /\ hw_ret = "NONE"
    /\ lastPulseArrival = 0
    /\ pulse_bursts = 0
    /\ last_report = 0
    /\ gate_entered = 0
    /\ recovery = "none"
    /\ esc_target_duty = -1
    /\ session_fails = 0
    /\ arm_pc = "idle"
    /\ hw_err_seen = [k \in FaultKinds |-> NoErrSeen]
    /\ g_sensor_health = NoSensorHealth
    /\ g_mode_status = NoModeStatus
    /\ g_learning_progress = NoEngine
    /\ g_auto_progress = NoEngine
    /\ g_manual_status = NoEngine
    /\ g_rate = NoRate
    /\ rate_hist = << >>
    /\ estop_cycles = -1

otherVars == <<g_sensor_health, modeVars, rateVars>>

\* hardware_init: reset the statics, create the queue, bring up the PWM
\* (which waits BOOT_DELAY_MS), install the ISR, create the two tasks.
hardware_init ==
    /\ ~g_hw_status.system_initialized
    /\ g_hw_status' = [g_hw_status EXCEPT
                          !.esc_armed = FALSE, !.esc_responding = FALSE,
                          !.current_esc_duty = ESC_NEUTRAL_DUTY,
                          !.ledc_duty = ESC_NEUTRAL_DUTY,
                          !.current_speed_ms = 0, !.target_speed_ms = 0,
                          !.direction_forward = TRUE, !.total_rotations = 0,
                          !.last_hall_time = 0, !.hall_sensor_healthy = FALSE,
                          !.system_initialized = TRUE]
    /\ g_hall_event_queue' = << >>
    /\ now' = now + BOOT_DELAY_MS
    /\ hw_ret' = "ESP_OK"
    /\ UNCHANGED <<lastPulseArrival, pulse_bursts, last_report, gate_entered, recovery, esc_target_duty, session_fails, arm_pc, hw_err_seen, otherVars>>

\* A caller invokes hardware_set_motor_speed(speed_ms, forward).
HwSetMotorSpeed(speed_ms, forward) ==
    LET r == hardware_set_motor_speed(g_hw_status, speed_ms, forward)
        k == FaultKind(g_hw_status, speed_ms)
    IN  /\ g_hw_status' = r.hw
        /\ hw_ret' = r.ret
        /\ hw_err_seen' = IF k \in FaultKinds
                          THEN [hw_err_seen EXCEPT ![k] =
                                   [ret |-> r.ret, err |-> r.hw.g_last_error]]
                          ELSE hw_err_seen
        /\ UNCHANGED <<now, g_hall_event_queue, lastPulseArrival, pulse_bursts, last_report, gate_entered, recovery, esc_target_duty, session_fails, arm_pc, otherVars>>

HwEscArm ==
    LET r == hardware_esc_arm(g_hw_status)
    IN  /\ g_hw_status' = r.hw
        /\ hw_ret' = r.ret
        /\ UNCHANGED <<now, g_hall_event_queue, lastPulseArrival, pulse_bursts, last_report, gate_entered, recovery, esc_target_duty, session_fails, arm_pc, hw_err_seen, otherVars>>

HwEscDisarm ==
    /\ g_hw_status' = hardware_esc_disarm(g_hw_status)
    /\ hw_ret' = "ESP_OK"
    /\ UNCHANGED <<now, g_hall_event_queue, lastPulseArrival, pulse_bursts, last_report, gate_entered, recovery, esc_target_duty, session_fails, arm_pc, hw_err_seen, otherVars>>

HwEmergencyStop ==
    /\ g_hw_status' = hardware_emergency_stop(g_hw_status)
    /\ hw_ret' = "ESP_OK"
    /\ UNCHANGED <<now, g_hall_event_queue, lastPulseArrival, pulse_bursts, last_report, gate_entered, recovery, esc_target_duty, session_fails, arm_pc, hw_err_seen, otherVars>>

\* A caller invokes hardware_set_esc_duty_direct(duty_cycle).
HwSetEscDutyDirect(duty_cycle) ==
    LET r == hardware_set_esc_duty_direct(g_hw_status, duty_cycle)
    IN  /\ g_hw_status' = r.hw
        /\ hw_ret' = r.ret
        /\ UNCHANGED <<now, g_hall_event_queue, lastPulseArrival, pulse_bursts, last_report, gate_entered, recovery, esc_target_duty, session_fails, arm_pc, hw_err_seen, otherVars>>

\* A caller invokes hardware_set_esc_rate_limiting(enable).
HwSetEscRateLimiting(enable) ==
    /\ g_hw_status' = hardware_set_esc_rate_limiting(g_hw_status, enable)
    /\ hw_ret' = "ESP_OK"
    /\ UNCHANGED <<now, g_hall_event_queue, lastPulseArrival, pulse_bursts, last_report, gate_entered, recovery, esc_target_duty, session_fails, arm_pc, hw_err_seen, otherVars>>

\* The ISR and the two tasks exist once hardware_init has installed them.
HwHallEdge ==
    /\ g_hw_status.system_initialized
    /\ g_hw_status.total_rotations + Len(g_hall_event_queue) < MaxPulses
    /\ hall_sensor_isr_handler

HwHallTask ==
    /\ g_hw_status.system_initialized
    /\ hall_processing_task

HwEscTask ==
    /\ g_hw_status.system_initialized
    /\ esc_update_task

HwTick ==
    /\ g_hw_status.system_initialized
    /\ now + HwTimeStep <= MaxHwTime
    /\ now' = now + HwTimeStep
    /\ UNCHANGED <<hwVars, otherVars>>

NextHw ==
    \/ hardware_init
    \/ \E s \in SpeedInputs, f \in BOOLEAN : HwSetMotorSpeed(s, f)
    \/ HwEscArm
    \/ HwEscDisarm
    \/ HwEmergencyStop
    \/ \E d \in DutyInputs : HwSetEscDutyDirect(d)
    \/ \E e \in BOOLEAN : HwSetEscRateLimiting(e)
    \/ HwEscTask

SpecHw == InitHw /\ [][NextHw]_vars

-----------------------------------------------------------------------------
(* Specification SpecHall: the Hall pulse pipeline after hardware_init *)

InitHall ==
    /\ now = BOOT_DELAY_MS
    /\ g_hw_status = [InitHwStatus EXCEPT !.system_initialized = TRUE]
    /\ g_hall_event_queue = << >>
    /\ hw_ret = "ESP_OK"
    /\ lastPulseArrival = 0
    /\ pulse_bursts = 0
    /\ last_report = 0
    /\ gate_entered = 0
    /\ recovery = "none"
    /\ esc_target_duty = -1
    /\ session_fails = 0
    /\ arm_pc = "idle"
    /\ hw_err_seen = [k \in FaultKinds |-> NoErrSeen]
    /\ g_sensor_health = NoSensorHealth
    /\ g_mode_status = NoModeStatus
    /\ g_learning_progress = NoEngine
    /\ g_auto_progress = NoEngine
    /\ g_manual_status = NoEngine
    /\ g_rate = NoRate
    /\ rate_hist = << >>
    /\ estop_cycles = -1

NextHall ==
    \/ \E s \in HallSpeedInputs, f \in BOOLEAN : HwSetMotorSpeed(s, f)
    \/ HwEscArm
    \/ HwEscDisarm
    \/ HwHallEdge
    \/ HwHallTask
    \/ HwEscTask
    \/ HwTick

SpecHall == InitHall /\ [][NextHall]_vars

-----------------------------------------------------------------------------
(* Specification SpecRace: an iteration of esc_update_task in two steps,    *)
(* the other tasks' hardware calls running in between.  The task holds no   *)
(* lock: it computes target_duty from the target speed, then updates        *)
(* current_esc_duty and the PWM from it.                                    *)

\* The second half of an armed iteration: the rate-limited step towards the
\* target_duty computed before, the PWM write and the health checks.
EscApply(hw, target_duty) ==
    LET duty_diff == target_duty - hw.current_esc_duty
        duty == IF hw.g_rate_limiting_enabled /\ Abs(duty_diff) > ESC_MAX_SPEED_CHANGE
                THEN IF duty_diff > 0
                     THEN hw.current_esc_duty + ESC_MAX_SPEED_CHANGE
                     ELSE hw.current_esc_duty - ESC_MAX_SPEED_CHANGE
                ELSE target_duty
        timeout == hw.last_hall_time > 0 /\ (now - hw.last_hall_time) > HALL_TIMEOUT_MS
    IN  [hw EXCEPT !.current_esc_duty = duty,
                   !.ledc_duty = duty,
                   !.g_last_esc_duty = duty,
                   !.esc_responding = TRUE,
                   !.current_speed_ms = IF timeout THEN 0 ELSE @,
                   !.hall_sensor_healthy =
                       IF timeout /\ hw.target_speed_ms > ESC_SPEED_DEADBAND
                       THEN FALSE ELSE @]

\* The task wakes, finds the ESC armed and computes target_duty.
EscTickBegin ==
    /\ esc_target_duty = -1
    /\ g_hw_status.system_initialized /\ g_hw_status.esc_armed
    /\ esc_target_duty' = speed_to_esc_duty(g_hw_status.target_speed_ms,
                                            g_hw_status.direction_forward)
    /\ UNCHANGED <<now, g_hw_status, g_hall_event_queue, hw_ret, hw_err_seen, lastPulseArrival, pulse_bursts, last_report,
                   gate_entered, recovery, session_fails, arm_pc, otherVars>>

\* The task finishes the iteration and sleeps until the next one.
EscTickEnd ==
    /\ esc_target_duty # -1
    /\ g_hw_status' = EscApply(g_hw_status, esc_target_duty)
    /\ esc_target_duty' = -1
    /\ UNCHANGED <<now, g_hall_event_queue, hw_ret, hw_err_seen, lastPulseArrival, pulse_bursts, last_report,
                   gate_entered, recovery, session_fails, arm_pc, otherVars>>

\* An iteration that finds the ESC disarmed: the health checks only.
EscTickDisarmed ==
    /\ esc_target_duty = -1
    /\ ~g_hw_status.esc_armed
    /\ HwEscTask

\* Speeds commanded in SpecRace: the motor is set moving, and brought to rest
\* by the emergency stop or by disarming.
RaceSpeedInputs == {500, 1500}

NextRace ==
    \/ \E s \in RaceSpeedInputs, f \in BOOLEAN : HwSetMotorSpeed(s, f)
    \/ HwEscArm
    \/ HwEscDisarm
    \/ HwEmergencyStop
    \/ EscTickBegin
    \/ EscTickEnd
    \/ EscTickDisarmed

SpecRace == InitHall /\ [][NextRace]_vars

-----------------------------------------------------------------------------
(* Specification SpecQueue: the Hall ISR and hall_processing_task with more *)
(* pulses than the queue holds.                                             *)

\* A Hall edge: the ISR runs, at most once per pulse instant.
QueueEdge ==
    /\ lastPulseArrival < now
    /\ hall_sensor_isr_handler

QueueTick ==
    /\ now + QueueTimeStep <= MaxQueueTime
    /\ now' = now + QueueTimeStep
    /\ UNCHANGED <<hwVars, otherVars>>

NextQueue ==
    \/ QueueEdge
    \/ HwHallTask
    \/ QueueTick

SpecQueue == InitHall /\ [][NextQueue]_vars

-----------------------------------------------------------------------------
(* Specification SpecArm: hardware_esc_arm step by step.  Its caller sleeps *)
(* in vTaskDelay between the three PWM writes while the other tasks run.    *)

\* Step 1: the caller enters hardware_esc_arm and writes the neutral duty.
ArmNeutral ==
    /\ arm_pc = "idle"
    /\ g_hw_status.system_initialized
    /\ g_hw_status' = [g_hw_status EXCEPT !.ledc_duty = ESC_NEUTRAL_DUTY]
    /\ arm_pc' = "neutral"
    /\ UNCHANGED <<now, g_hall_event_queue, hw_ret, lastPulseArrival, pulse_bursts, last_report, gate_entered, recovery, esc_target_duty, session_fails, hw_err_seen, otherVars>>

\* Step 2, after the 1 s delay: the arming signal.
ArmSignal ==
    /\ arm_pc = "neutral"
    /\ g_hw_status' = [g_hw_status EXCEPT !.ledc_duty = ESC_ARM_DUTY]
    /\ arm_pc' = "signal"
    /\ UNCHANGED <<now, g_hall_event_queue, hw_ret, lastPulseArrival, pulse_bursts, last_report, gate_entered, recovery, esc_target_duty, session_fails, hw_err_seen, otherVars>>

\* Step 3, after the 3 s delay: back to neutral, armed, return ESP_OK.
ArmComplete ==
    /\ arm_pc = "signal"
    /\ g_hw_status' = [g_hw_status EXCEPT !.ledc_duty = ESC_NEUTRAL_DUTY,
                                          !.esc_armed = TRUE,
                                          !.current_esc_duty = ESC_NEUTRAL_DUTY]
    /\ hw_ret' = "ESP_OK"
    /\ arm_pc' = "idle"
    /\ UNCHANGED <<now, g_hall_event_queue, lastPulseArrival, pulse_bursts, last_report, gate_entered, recovery, esc_target_duty, session_fails, hw_err_seen, otherVars>>

NextArm ==
    \/ ArmNeutral
    \/ ArmSignal
    \/ ArmComplete
    \/ \E s \in HallSpeedInputs, f \in BOOLEAN : HwSetMotorSpeed(s, f)
    \/ HwEscDisarm
    \/ HwEmergencyStop
    \/ HwEscTask

SpecArm == InitHall /\ [][NextArm]_vars

-----------------------------------------------------------------------------
(* Properties of hardware_set_motor_speed (SpecHw) *)

InvalidSpeeds == {s \in SpeedInputs : ~hardware_is_speed_valid(s)}

\* C7 as stated: an out-of-range speed, in every hardware state (armed,
\* disarmed, uninitialized), returns the invalid-argument error and leaves
\* target_speed_ms unchanged.
C7_AsStated ==
    [][\A s \in InvalidSpeeds, f \in BOOLEAN :
          HwSetMotorSpeed(s, f) =>
              /\ hw_ret' = "ESP_ERR_INVALID_ARG"
              /\ g_hw_status'.target_speed_ms = g_hw_status.target_speed_ms]_vars

\* C7 (amended): an out-of-range speed never changes target_speed_ms or the
\* direction; once the hardware is initialized (armed or disarmed) the call
\* returns the invalid-argument error, and before initialization it returns the
\* invalid-state error.
C7_OutOfRangeRejected ==
    [][\A s \in InvalidSpeeds, f \in BOOLEAN :
          HwSetMotorSpeed(s, f) =>
              /\ g_hw_status'.target_speed_ms = g_hw_status.target_speed_ms
              /\ g_hw_status'.direction_forward = g_hw_status.direction_forward
              /\ g_hw_status.system_initialized =>
                    /\ hw_ret' = "ESP_ERR_INVALID_ARG"
                    /\ g_hw_status'.g_last_error = "HW_ERROR_SPEED_OUT_OF_RANGE"
              /\ ~g_hw_status.system_initialized =>
                    hw_ret' = "ESP_ERR_INVALID_STATE"]_vars

\* An out-of-range call was rejected while the motor had a non-zero target,
\* and the target is still there.
C7_Witness ==
    /\ hw_ret = "ESP_ERR_INVALID_ARG"
    /\ g_hw_status.g_last_error = "HW_ERROR_SPEED_OUT_OF_RANGE"
    /\ g_hw_status.esc_armed
    /\ g_hw_status.target_speed_ms > 0

Seen(k) == hw_err_seen[k] # NoErrSeen

\* C8 as stated: the disarmed, the uninitialized and the out-of-range call
\* each return an error distinct from the other two.
C8_AsStated ==
    \A k1, k2 \in FaultKinds :
        (k1 # k2 /\ Seen(k1) /\ Seen(k2)) => hw_err_seen[k1].ret # hw_err_seen[k2].ret

\* C8 (amended): each of the three calls returns an error (none succeeds,
\* none aborts); the out-of-range call returns the invalid-argument code, the
\* disarmed and the uninitialized call both return the invalid-state code, and
\* the three are told apart by the hardware error they record.
C8_DistinctRecordedErrors ==
    /\ \A k \in FaultKinds :
          Seen(k) => hw_err_seen[k].ret \in {"ESP_ERR_INVALID_STATE", "ESP_ERR_INVALID_ARG"}
    /\ Seen("range") => hw_err_seen["range"].ret = "ESP_ERR_INVALID_ARG"
    /\ Seen("uninit") => hw_err_seen["uninit"].ret = "ESP_ERR_INVALID_STATE"
    /\ Seen("disarmed") => hw_err_seen["disarmed"].ret = "ESP_ERR_INVALID_STATE"
    /\ \A k1, k2 \in FaultKinds :
          (k1 # k2 /\ Seen(k1) /\ Seen(k2)) => hw_err_seen[k1].err # hw_err_seen[k2].err

\* All three faulty calls have been made.
C8_Witness == \A k \in FaultKinds : Seen(k)

-----------------------------------------------------------------------------
(* Properties of the Hall pulse pipeline (SpecHall) *)

\* No Hall edge for more than HALL_TIMEOUT_MS (none at all counts from boot).
HallSilent == now - lastPulseArrival > HALL_TIMEOUT_MS

\* C9: when esc_update_task runs with no Hall pulse for more than 2000 ms and
\* the target speed above the deadband, whether or not a pulse was ever
\* received, current_speed_ms is 0 and hall_sensor_healthy is false afterwards.
C9_HallTimeout ==
    [][(HwEscTask /\ HallSilent /\ g_hw_status.target_speed_ms > ESC_SPEED_DEADBAND) =>
          /\ g_hw_status'.current_speed_ms = 0
          /\ ~g_hw_status'.hall_sensor_healthy]_vars

\* Pulses gave a speed, then silence: the pipeline has zeroed the speed and
\* marked the sensor unhealthy while the motor is still commanded to move.
C9_Witness ==
    /\ g_hw_status.total_rotations >= 2
    /\ g_hall_event_queue = << >>
    /\ HallSilent
    /\ g_hw_status.target_speed_ms > ESC_SPEED_DEADBAND
    /\ g_hw_status.current_speed_ms = 0
    /\ ~g_hw_status.hall_sensor_healthy

-----------------------------------------------------------------------------
(* Specification Spec: the system after init_system_components (main.cpp):  *)
(* system_update_task runs its loop, the web command handler and the Hall   *)
(* interrupt come in between its iterations.  All of it happens within the  *)
(* first second after boot (time stands still); SpecValidation below lets   *)
(* time pass.  The wire-learning run, the commands B, D, '+', '-',          *)
(* the graceful stop Q (it is part of SpecValidation) and                   *)
(* mode_coordinator_report_error (no caller) are left out.                  *)

Init ==
    /\ now = BOOT_DELAY_MS
    /\ g_hw_status = [InitHwStatus EXCEPT !.system_initialized = TRUE]
    /\ g_hall_event_queue = << >>
    /\ hw_ret = "ESP_OK"
    /\ lastPulseArrival = 0
    /\ pulse_bursts = 0
    /\ last_report = 0
    /\ gate_entered = 0
    /\ recovery = "none"
    /\ esc_target_duty = -1
    /\ session_fails = 0
    /\ arm_pc = "idle"
    /\ hw_err_seen = [k \in FaultKinds |-> NoErrSeen]
    /\ g_sensor_health = InitSensorHealth(BOOT_DELAY_MS)
    /\ g_mode_status = InitModeStatus(TRUE)
    /\ g_learning_progress = InitLearningProgress
    /\ g_auto_progress = InitAutoProgress
    /\ g_manual_status = InitManualStatus
    /\ g_rate = InitRate
    /\ rate_hist = << >>
    /\ estop_cycles = -1

ApplyWorld(w) ==
    /\ g_hw_status' = w.hw
    /\ g_sensor_health' = w.sh
    /\ g_mode_status' = w.ms
    /\ g_learning_progress' = w.wl
    /\ g_auto_progress' = w.au
    /\ g_manual_status' = w.mm

\* The run of failed observations of manual_mode_monitor_hall_sensor in the
\* current manual session, after a step from statics w to statics v: a
\* session begins when the manual engine becomes active; a failed observation
\* increments g_motion_validation_failures, a successful one zeroes it and
\* restarts the observation period.
SessionFails(w, v) ==
    IF ~manual_mode_is_active(w) /\ manual_mode_is_active(v) THEN 0
    ELSE IF v.mm.g_motion_validation_failures = w.mm.g_motion_validation_failures + 1
    THEN session_fails + 1
    ELSE IF /\ v.mm.g_motion_validation_failures = 0
            /\ v.mm.g_last_motion_validation_time # w.mm.g_last_motion_validation_time
    THEN 0
    ELSE session_fails

\* One iteration of the loop of system_update_task (hardware_update and
\* web_interface_update change none of the statics modelled here).
\* Each call works on the statics the call before it has left.
system_update_task(w, read) ==
    CHOOSE w5 \in
        { manual_mode_update(w4) : w4 \in
        { automatic_mode_update(w3) : w3 \in
        { wire_learning_mode_update(w2) : w2 \in
        { mode_coordinator_update(w1) : w1 \in
        { [w0 EXCEPT !.sh = sensor_health_update(w0.sh, read)] : w0 \in {w} } } } } } :
        TRUE

SystemUpdate ==
    \E read \in AccelReads : \E w \in {system_update_task(World, read)} :
        /\ ApplyWorld(w)
        /\ estop_cycles' = IF estop_cycles = 0 THEN 1 ELSE estop_cycles
        /\ gate_entered' = IF w.sh.init_state # g_sensor_health.init_state
                           THEN now ELSE gate_entered
        /\ session_fails' = SessionFails(World, w)
        /\ recovery' = IF /\ recovery = "reset"
                          /\ w.ms.sensors_validated
                          /\ w.sh.system_ready
                       THEN "validated" ELSE recovery
        /\ UNCHANGED <<now, g_hall_event_queue, hw_ret, lastPulseArrival, pulse_bursts, last_report, arm_pc, esc_target_duty, hw_err_seen,
                       rateVars>>

\* What a web command leaves alone; cycles is the new count of update cycles
\* since the emergency stop, rec the stage of the recovery after the command.
CommandFrameTo(cycles, rec) ==
    /\ estop_cycles' = cycles
    /\ recovery' = rec
    /\ session_fails' = SessionFails(World, World')
    /\ UNCHANGED <<now, g_hall_event_queue, hw_ret, lastPulseArrival, pulse_bursts, last_report, gate_entered, esc_target_duty, arm_pc, hw_err_seen,
                   rateVars>>

CommandFrame(cycles) == CommandFrameTo(cycles, recovery)

\* web_process_command, one action per command character.
CmdW ==
    /\ ApplyWorld(mode_coordinator_activate_wire_learning(World).w)
    /\ CommandFrame(-1)

CmdU ==
    /\ ApplyWorld(mode_coordinator_activate_automatic(World).w)
    /\ CommandFrame(-1)

CmdM ==
    /\ ApplyWorld(mode_coordinator_activate_manual(World).w)
    /\ CommandFrame(-1)

CmdV ==
    /\ ApplyWorld(mode_coordinator_start_sensor_validation(World))
    /\ CommandFrame(-1)

CmdH ==
    /\ ApplyWorld(mode_coordinator_confirm_hall_validation(World).w)
    /\ CommandFrame(-1)

CmdC ==
    /\ ApplyWorld(mode_coordinator_confirm_accel_validation(World).w)
    /\ CommandFrame(-1)

CmdA ==
    /\ ApplyWorld(IF manual_mode_is_active(World)
                  THEN manual_mode_arm_esc(World).w ELSE World)
    /\ CommandFrame(-1)

CmdF ==
    /\ ApplyWorld(IF manual_mode_is_active(World)
                  THEN manual_mode_move_forward(World).w ELSE World)
    /\ CommandFrame(-1)

CmdS ==
    /\ ApplyWorld(IF manual_mode_is_active(World)
                  THEN manual_mode_stop_movement(World).w ELSE World)
    /\ CommandFrame(-1)

CmdQ ==
    /\ ApplyWorld(mode_coordinator_stop_current_mode(World, FALSE))
    /\ CommandFrame(-1)

CmdI ==
    /\ ApplyWorld(IF automatic_mode_is_active(World)
                  THEN automatic_mode_interrupt(World)
                  ELSE mode_coordinator_stop_current_mode(World, TRUE))
    /\ CommandFrame(-1)

CmdE ==
    /\ ApplyWorld(mode_coordinator_emergency_stop(World))
    /\ CommandFrame(0)

CmdR ==
    /\ ApplyWorld(mode_coordinator_reset_system(World))
    /\ CommandFrame(-1)

\* The Hall callback of the sensor gate is invoked.
HallPulseDetected ==
    /\ g_sensor_health.g_validation_active
    /\ g_sensor_health' = sensor_health_hall_pulse_detected(g_sensor_health)
    /\ UNCHANGED <<now, hwVars, modeVars, rateVars>>

HallEdge ==
    /\ g_hw_status.total_rotations + Len(g_hall_event_queue) < MaxCoordPulses
    /\ hall_sensor_isr_handler

HallTask == hall_processing_task

EscTask == esc_update_task

Tick ==
    /\ now + CoordTimeStep <= MaxCoordTime
    /\ now' = now + CoordTimeStep
    /\ UNCHANGED <<hwVars, g_sensor_health, modeVars, rateVars>>

Next ==
    \/ SystemUpdate
    \/ CmdW
    \/ CmdU
    \/ CmdM
    \/ CmdV
    \/ CmdH
    \/ CmdC
    \/ CmdA
    \/ CmdF
    \/ CmdS
    \/ CmdI
    \/ CmdE
    \/ CmdR
    \/ HallPulseDetected
    \/ HallEdge
    \/ HallTask
    \/ EscTask

Spec == Init /\ [][Next]_vars

\* Specification SpecModes: Spec without the PWM ramp of esc_update_task,
\* which reads the motor target and writes the duty only.
NextModes ==
    \/ SystemUpdate
    \/ CmdW
    \/ CmdU
    \/ CmdM
    \/ CmdV
    \/ CmdH
    \/ CmdC
    \/ CmdA
    \/ CmdF
    \/ CmdS
    \/ CmdI
    \/ CmdE
    \/ CmdR
    \/ HallPulseDetected
    \/ HallEdge
    \/ HallTask

SpecModes == Init /\ [][NextModes]_vars

-----------------------------------------------------------------------------
(* Specification SpecValidation: the coordinator's commands and the update  *)
(* loop while time passes; no motor command and no Hall edge at the         *)
(* hardware, so the 60 s timeouts of the gate and of the validation occur.  *)

NextValidation ==
    \/ SystemUpdate
    \/ CmdW
    \/ CmdU
    \/ CmdM
    \/ CmdV
    \/ CmdH
    \/ CmdC
    \/ CmdQ
    \/ CmdI
    \/ CmdE
    \/ CmdR
    \/ HallPulseDetected
    \/ Tick

SpecValidation == Init /\ [][NextValidation]_vars

-----------------------------------------------------------------------------
(* Specification SpecRate: calls of the manual command rate limiter *)

RateCommand ==
    /\ Len(rate_hist) < MaxRateCommands
    /\ LET r == manual_mode_check_command_rate_limit(g_rate)
       IN  /\ g_rate' = r.r
           /\ rate_hist' = Append(rate_hist, [t |-> now, ok |-> r.ret])
    /\ UNCHANGED <<now, hwVars, g_sensor_health, modeVars>>

RateTick ==
    /\ now + RateTimeStep <= MaxRateTime
    /\ now' = now + RateTimeStep
    /\ UNCHANGED <<hwVars, g_sensor_health, modeVars, rateVars>>

NextRate ==
    \/ RateCommand
    \/ RateTick

SpecRate == Init /\ [][NextRate]_vars

-----------------------------------------------------------------------------
(* Specification SpecLearning: wire-learning runs after a sensor validation. *)
(* While a run drives the motor the wheel turns in bursts of Hall pulses    *)
(* that the ISR and the processing task take in within one clock step (the  *)
(* speed estimate sees the first pulse's interval).  The clock advances     *)
(* while a run is active, by more than the run's 60 s limit.  The PWM ramp  *)
(* of esc_update_task is part of Spec and SpecHall.                         *)

\* The statics after a sensor validation: command V, a Hall pulse at the
\* gate, the update loop seeing shake, the confirmations H and C, and the
\* wheel's pulse through hall_processing_task, all at boot time (Spec gets
\* here in eleven steps).  stored: a learning result was found in NVS.
ValidatedHw ==
    [InitHwStatus EXCEPT !.system_initialized = TRUE,
                         !.total_rotations = 1, !.g_current_position = 1,
                         !.last_hall_time = BOOT_DELAY_MS, !.last_time = BOOT_DELAY_MS,
                         !.hall_sensor_healthy = TRUE]

ValidatedSensorHealth ==
    [InitSensorHealth(BOOT_DELAY_MS) EXCEPT
        !.init_state = "SYSTEM_READY",
        !.wheel_rotation_detected = TRUE, !.trolley_shake_detected = TRUE,
        !.sensors_validated = TRUE, !.system_ready = TRUE,
        !.total_accel_g = 100]

ValidatedModeStatus(stored) ==
    [InitModeStatus(stored) EXCEPT
        !.sensor_validation_state = "COMPLETE",
        !.g_sensor_validation_start_time = BOOT_DELAY_MS,
        !.g_hall_validation_user_confirmed = TRUE,
        !.g_accel_validation_user_confirmed = TRUE,
        !.sensors_validated = TRUE,
        !.hall_validation_complete = TRUE, !.accel_validation_complete = TRUE,
        !.wire_learning_availability = "AVAILABLE",
        !.automatic_availability =
            IF stored THEN "AVAILABLE" ELSE "BLOCKED_WIRE_LEARNING_REQUIRED",
        !.manual_availability = "AVAILABLE"]

InitLearning ==
    /\ now = BOOT_DELAY_MS
    /\ g_hw_status = ValidatedHw
    /\ g_hall_event_queue = << >>
    /\ hw_ret = "ESP_OK"
    /\ lastPulseArrival = BOOT_DELAY_MS
    /\ pulse_bursts = 0
    /\ last_report = 0
    /\ gate_entered = 0
    /\ recovery = "none"
    /\ esc_target_duty = -1
    /\ session_fails = 0
    /\ arm_pc = "idle"
    /\ hw_err_seen = [k \in FaultKinds |-> NoErrSeen]
    /\ g_sensor_health = ValidatedSensorHealth
    /\ g_mode_status = ValidatedModeStatus(FALSE)
    /\ g_learning_progress = InitLearningProgress
    /\ g_auto_progress = InitAutoProgress
    /\ g_manual_status = InitManualStatus
    /\ g_rate = InitRate
    /\ rate_hist = << >>
    /\ estop_cycles = -1

\* Wheel turns per burst: two bursts make the spec's 10.0 m and 10.3 m runs
\* (52 and 54 turns), the third brings a run to the 2000 m limit.
PulseBursts == {26, 27, 10412}

HallBurst ==
    /\ wire_learning_mode_is_active(World)
    /\ g_hw_status.target_speed_ms > 0
    /\ pulse_bursts < MaxBursts
    /\ \E k \in PulseBursts :
         g_hw_status' =
             [HallProcess(g_hw_status, now) EXCEPT
                 !.total_rotations = @ + (k - 1),
                 !.g_current_position =
                     IF g_hw_status.direction_forward THEN @ + (k - 1) ELSE @ - (k - 1)]
    /\ lastPulseArrival' = now
    /\ pulse_bursts' = pulse_bursts + 1
    /\ UNCHANGED <<now, g_hall_event_queue, hw_ret, hw_err_seen, g_sensor_health,
                   modeVars, rateVars, last_report, gate_entered, recovery, esc_target_duty, session_fails, arm_pc>>

LearnTick ==
    /\ wire_learning_mode_is_active(World)
    /\ now + LearnTimeStep <= MaxLearnTime
    /\ now' = now + LearnTimeStep
    /\ UNCHANGED <<hwVars, g_sensor_health, modeVars, rateVars>>

NextLearning ==
    \/ SystemUpdate
    \/ CmdW
    \/ CmdI
    \/ HallBurst
    \/ LearnTick

SpecLearning == InitLearning /\ [][NextLearning]_vars

\* Specification SpecTimeout: the learning run against its 60 s timeout, with
\* bursts of one size.
\* Wheel turns per burst: two bursts make a 10.0 m run.
TimeoutPulses == 26

TimeoutBurst ==
    /\ wire_learning_mode_is_active(World)
    /\ g_hw_status.target_speed_ms > 0
    /\ pulse_bursts < MaxTimeoutBursts
    /\ g_hw_status' =
          [HallProcess(g_hw_status, now) EXCEPT
              !.total_rotations = @ + (TimeoutPulses - 1),
              !.g_current_position =
                  IF g_hw_status.direction_forward
                  THEN @ + (TimeoutPulses - 1) ELSE @ - (TimeoutPulses - 1)]
    /\ lastPulseArrival' = now
    /\ pulse_bursts' = pulse_bursts + 1
    /\ UNCHANGED <<now, g_hall_event_queue, hw_ret, hw_err_seen, g_sensor_health,
                   modeVars, rateVars, last_report, gate_entered, recovery,
                   esc_target_duty, session_fails, arm_pc>>

NextTimeout ==
    \/ SystemUpdate
    \/ CmdW
    \/ CmdI
    \/ TimeoutBurst
    \/ LearnTick

SpecTimeout == InitLearning /\ [][NextTimeout]_vars


-----------------------------------------------------------------------------
(* Specification SpecAuto: the automatic engine's start.  The boot reads   *)
(* the stored learning result from NVS as a blob, without looking at it    *)
(* (load_persistent_data), so the run begins with any stored result, before *)
(* or after the sensor validation.  The automatic engine is started through *)
(* the coordinator (command U) or by automatic_mode_start itself.           *)

\* Wire lengths (0.1 mm) of the stored result: none, just below and exactly
\* the automatic mode's minimum, and the 10 m of the example.
StoredWireLengths == {0, Metres(AUTO_MODE_MIN_WIRE_LENGTH_M) - 1,
                      Metres(AUTO_MODE_MIN_WIRE_LENGTH_M), Metres(StoredWireLength)}

InitAuto ==
    /\ now = BOOT_DELAY_MS
    /\ g_hall_event_queue = << >>
    /\ hw_ret = "ESP_OK"
    /\ pulse_bursts = 0
    /\ last_report = 0
    /\ gate_entered = 0
    /\ recovery = "none"
    /\ esc_target_duty = -1
    /\ session_fails = 0
    /\ arm_pc = "idle"
    /\ hw_err_seen = [k \in FaultKinds |-> NoErrSeen]
    /\ g_learning_progress = InitLearningProgress
    /\ g_auto_progress = InitAutoProgress
    /\ g_manual_status = InitManualStatus
    /\ g_rate = InitRate
    /\ rate_hist = << >>
    /\ estop_cycles = -1
    /\ \E validated \in BOOLEAN, complete \in BOOLEAN, len \in StoredWireLengths :
         /\ g_hw_status = IF validated THEN ValidatedHw
                          ELSE [InitHwStatus EXCEPT !.system_initialized = TRUE]
         /\ lastPulseArrival = IF validated THEN BOOT_DELAY_MS ELSE 0
         /\ g_sensor_health = IF validated THEN ValidatedSensorHealth
                              ELSE InitSensorHealth(BOOT_DELAY_MS)
         /\ g_mode_status =
                [(IF validated THEN ValidatedModeStatus(complete)
                  ELSE InitModeStatus(complete)) EXCEPT !.wire_length_m = len]

\* automatic_mode_start called by itself.
AutoStart ==
    /\ ApplyWorld(automatic_mode_start(World).w)
    /\ CommandFrame(estop_cycles)

NextAuto ==
    \/ SystemUpdate
    \/ CmdU
    \/ AutoStart
    \/ CmdM
    \/ CmdA
    \/ CmdF
    \/ CmdS
    \/ CmdI
    \/ CmdE
    \/ CmdR

SpecAuto == InitAuto /\ [][NextAuto]_vars

-----------------------------------------------------------------------------
(* Specification SpecGraceful: the automatic engine and the graceful stop,  *)
(* command Q, from the validated state with a stored 10 m result.           *)
(* system_update_task runs every 100 ms for ever, so an update cycle that   *)
(* has something to do is eventually taken.                                 *)

InitGraceful ==
    /\ InitAuto
    /\ g_mode_status = ValidatedModeStatus(TRUE)

NextGraceful ==
    \/ SystemUpdate
    \/ CmdU
    \/ CmdQ
    \/ CmdM
    \/ CmdA
    \/ CmdI
    \/ CmdE

SpecGraceful == InitGraceful /\ [][NextGraceful]_vars /\ WF_vars(SystemUpdate)

-----------------------------------------------------------------------------
(* Specification SpecRecover: the operator's recovery.  From the validated  *)
(* state with a stored 10 m result: emergency stop (E), system reset (R),   *)
(* the sensor validation again (V, a Hall pulse, H, a shake, C), then a     *)
(* learning run (W) and the commands that activate the other two modes.     *)

\* The operator's procedure, each step taken once and in this order.
\* Commands E and R, recorded as stages of the recovery.
RecoverStop ==
    /\ recovery = "none"
    /\ ApplyWorld(mode_coordinator_emergency_stop(World))
    /\ CommandFrameTo(0, "stopped")

RecoverReset ==
    /\ recovery = "stopped"
    /\ ApplyWorld(mode_coordinator_reset_system(World))
    /\ CommandFrameTo(-1, "reset")

RecoverValidate == recovery = "reset" /\ CmdV

RecoverLearn ==
    /\ recovery = "validated"
    /\ ~g_mode_status.wire_learning_complete
    /\ CmdW

RecoverManual == recovery = "validated" /\ CmdM

NextRecover ==
    \/ SystemUpdate
    \/ RecoverStop
    \/ RecoverReset
    \/ RecoverValidate
    \/ HallPulseDetected
    \/ CmdH
    \/ CmdC
    \/ RecoverLearn
    \/ CmdU
    \/ RecoverManual
    \/ HallBurst
    \/ LearnTick

SpecRecover == InitGraceful /\ [][NextRecover]_vars

-----------------------------------------------------------------------------
(* Specification SpecManual: manual sessions from the validated state, the  *)
(* motor commanded forward, with and without wheel pulses, stopped and      *)
(* started again.                                                           *)

\* The validated state, the accelerometer having last read 0.7 g (the trolley
\* bouncing on the wire): at 1 g, gravity alone, manual_mode_check_impact_detection
\* stops the engine in its first update cycle.
InitManual ==
    /\ now = BOOT_DELAY_MS
    /\ g_hw_status = ValidatedHw
    /\ g_hall_event_queue = << >>
    /\ hw_ret = "ESP_OK"
    /\ lastPulseArrival = BOOT_DELAY_MS
    /\ pulse_bursts = 0
    /\ last_report = 0
    /\ gate_entered = 0
    /\ recovery = "none"
    /\ esc_target_duty = -1
    /\ session_fails = 0
    /\ arm_pc = "idle"
    /\ hw_err_seen = [k \in FaultKinds |-> NoErrSeen]
    /\ g_sensor_health = [ValidatedSensorHealth EXCEPT
                             !.total_accel_g = MANUAL_MODE_MAX_IMPACT_G - 10]
    /\ g_mode_status = ValidatedModeStatus(FALSE)
    /\ g_learning_progress = InitLearningProgress
    /\ g_auto_progress = InitAutoProgress
    /\ g_manual_status = InitManualStatus
    /\ g_rate = InitRate
    /\ rate_hist = << >>
    /\ estop_cycles = -1

\* The wheel turns while the motor is commanded: one pulse, processed.
ManualPulse ==
    /\ g_hw_status.target_speed_ms > 0
    /\ g_hw_status.total_rotations < MaxManualPulses
    /\ lastPulseArrival < now
    /\ g_hw_status' = HallProcess(g_hw_status, now)
    /\ lastPulseArrival' = now
    /\ UNCHANGED <<now, g_hall_event_queue, hw_ret, hw_err_seen, pulse_bursts, last_report, gate_entered, recovery, esc_target_duty, session_fails, arm_pc,
                   g_sensor_health, modeVars, rateVars>>

\* Command M, while the failure counter (a uint32 that nothing resets) is
\* below the horizon.
ManualStart ==
    /\ g_manual_status.g_motion_validation_failures < MaxManualFailures
    /\ CmdM

ManualTick ==
    /\ now + ManualTimeStep <= MaxManualTime
    /\ now' = now + ManualTimeStep
    /\ UNCHANGED <<hwVars, g_sensor_health, modeVars, rateVars>>

NextManual ==
    \/ SystemUpdate
    \/ ManualStart
    \/ CmdA
    \/ CmdF
    \/ CmdQ
    \/ ManualPulse
    \/ ManualTick

SpecManual == InitManual /\ [][NextManual]_vars

-----------------------------------------------------------------------------
(* Specification SpecCoasting: the coasting calibration of the automatic    *)
(* engine, from the validated state with a stored 10 m result.  The         *)
(* calibration is begun by automatic_mode_start_coasting_calibration and    *)
(* fed by automatic_mode_update_coasting_calibration with the measured      *)
(* speed; the wheel turns while the engine calibrates.                      *)

\* Measured speeds (mm/s): at rest, and the calibration speed.
CoastSpeeds == {0, AUTO_COASTING_CALIBRATION_SPEED}

\* Wheel turns per burst: 0.38 m, 0.57 m and 50.01 m.
CoastBursts == {2, 3, 261}

StartCoastingCalibration ==
    /\ ApplyWorld(automatic_mode_start_coasting_calibration(World).w)
    /\ CommandFrame(estop_cycles)

UpdateCoastingCalibration ==
    /\ \E speed \in CoastSpeeds :
         ApplyWorld(automatic_mode_update_coasting_calibration(World, speed).w)
    /\ CommandFrame(estop_cycles)

CoastTurns ==
    /\ g_auto_progress.state = "COASTING_CALIBRATION"
    /\ pulse_bursts < MaxBursts
    /\ \E k \in CoastBursts :
         g_hw_status' =
             [HallProcess(g_hw_status, now) EXCEPT
                 !.total_rotations = @ + (k - 1),
                 !.g_current_position =
                     IF g_hw_status.direction_forward THEN @ + (k - 1) ELSE @ - (k - 1)]
    /\ lastPulseArrival' = now
    /\ pulse_bursts' = pulse_bursts + 1
    /\ UNCHANGED <<now, g_hall_event_queue, hw_ret, hw_err_seen, g_sensor_health,
                   modeVars, rateVars, last_report, gate_entered, recovery, esc_target_duty, session_fails, arm_pc>>

NextCoasting ==
    \/ SystemUpdate
    \/ CmdU
    \/ StartCoastingCalibration
    \/ UpdateCoastingCalibration
    \/ CoastTurns
    \/ CmdE

SpecCoasting == InitGraceful /\ [][NextCoasting]_vars

-----------------------------------------------------------------------------
(* Specification SpecErrors: errors reported to the coordinator while time  *)
(* passes, from the validated state, with the manual engine driving the     *)
(* motor.                                                                    *)

ReportError ==
    /\ g_mode_status.g_error_count < MaxErrors
    /\ ApplyWorld(mode_coordinator_report_error(World))
    /\ last_report' = now
    /\ estop_cycles' = IF g_mode_status.g_error_count + 1 >= MAX_SYSTEM_ERRORS
                       THEN 0 ELSE estop_cycles
    /\ UNCHANGED <<now, g_hall_event_queue, hw_ret, lastPulseArrival, pulse_bursts,
                   gate_entered, recovery, esc_target_duty, session_fails, arm_pc, hw_err_seen, rateVars>>

ErrTick ==
    /\ now + ErrTimeStep <= MaxErrTime
    /\ now' = now + ErrTimeStep
    /\ UNCHANGED <<hwVars, g_sensor_health, modeVars, rateVars>>

NextErrors ==
    \/ SystemUpdate
    \/ ReportError
    \/ ErrTick
    \/ CmdM
    \/ CmdA
    \/ CmdF

SpecErrors == InitGraceful /\ [][NextErrors]_vars

-----------------------------------------------------------------------------
(* Specification SpecResult: learning runs on a system that holds a stored  *)
(* complete result, with the system reset.                                  *)

NextResult ==
    \/ SystemUpdate
    \/ CmdW
    \/ CmdR
    \/ HallBurst
    \/ LearnTick

SpecResult == InitGraceful /\ [][NextResult]_vars

-----------------------------------------------------------------------------
(* Properties of the modes (Spec) *)

ActiveEngines ==
    {e \in {"WIRE_LEARNING", "AUTOMATIC", "MANUAL"} :
        \/ e = "WIRE_LEARNING" /\ wire_learning_mode_is_active(World)
        \/ e = "AUTOMATIC" /\ automatic_mode_is_active(World)
        \/ e = "MANUAL" /\ manual_mode_is_active(World)}

\* C1 as stated: whatever activation commands and update ticks have run, at
\* most one of the three engines reports is_active().
C1_AsStated == Cardinality(ActiveEngines) <= 1

\* C2 as stated: once a full update cycle has run after an emergency stop
\* (and no other command came in), the hardware target speed is 0, the ESC
\* duty is neutral and no engine reports is_active().
C2_AsStated ==
    estop_cycles = 1 =>
        /\ g_hw_status.target_speed_ms = 0
        /\ g_hw_status.current_esc_duty = ESC_NEUTRAL_DUTY
        /\ ActiveEngines = {}

\* C4: every activation command that succeeds (the coordinator lets it
\* through and the engine's start returns ESP_OK) is issued while
\* sensors_validated is true.
C4_ActivationNeedsValidation ==
    [][/\ (CmdW /\ mode_coordinator_activate_wire_learning(World).ret = "ESP_OK")
            => g_mode_status.sensors_validated
       /\ (CmdU /\ mode_coordinator_activate_automatic(World).ret = "ESP_OK")
            => g_mode_status.sensors_validated
       /\ (CmdM /\ mode_coordinator_activate_manual(World).ret = "ESP_OK")
            => g_mode_status.sensors_validated]_vars

\* The manual engine has just been started (the coordinator has not yet
\* noticed it) with the sensors validated.
C4_Witness ==
    /\ g_manual_status.state = "READY"
    /\ g_mode_status.current_mode = "NONE"
    /\ g_mode_status.manual_availability = "AVAILABLE"
    /\ g_mode_status.sensors_validated

-----------------------------------------------------------------------------
(* Properties of the sensor validation (SpecValidation) *)

\* C3 as stated: sensors_validated is true only if both confirmations were
\* given and both detections (wheel rotation, trolley shake) have occurred.
C3_AsStated ==
    g_mode_status.sensors_validated =>
        /\ g_mode_status.g_hall_validation_user_confirmed
        /\ g_mode_status.g_accel_validation_user_confirmed
        /\ g_sensor_health.wheel_rotation_detected
        /\ g_sensor_health.trolley_shake_detected

SensorsValidatedCleared ==
    g_mode_status.sensors_validated /\ ~g_mode_status'.sensors_validated

\* C5 as stated: sensors_validated goes from true to false only in a reset
\* (reset sensor validation, reached through reset system) or when the
\* validation fails.
C5_AsStated ==
    [][SensorsValidatedCleared =>
          (CmdR \/ g_mode_status'.sensor_validation_state = "FAILED")]_vars

\* C5 (amended): sensors_validated goes from true to false only in a reset
\* (reset system) or when a new validation is started; no update tick, and so
\* no validation timeout, clears it.
C5_ClearedByResetOrRestart ==
    [][SensorsValidatedCleared => (CmdR \/ CmdV)]_vars

\* A validation was restarted after a completed one: the flag is down, the
\* availability computed from it is still up.
C5_Witness ==
    /\ g_mode_status.sensor_validation_state = "IN_PROGRESS"
    /\ ~g_mode_status.sensors_validated
    /\ g_mode_status.manual_availability = "AVAILABLE"

\* C6 as stated: the gate is system_ready only if the operator confirmed both
\* sensors.
C6_AsStated ==
    g_sensor_health.system_ready =>
        /\ g_mode_status.g_hall_validation_user_confirmed
        /\ g_mode_status.g_accel_validation_user_confirmed

\* C6 (amended): the gate is system_ready only if both the wheel rotation and
\* the trolley shake have been detected; the gate takes no confirmation, the
\* operator's handshake belongs to the coordinator's sensors_validated.
C6_ReadyAfterDetections ==
    g_sensor_health.system_ready =>
        /\ g_sensor_health.wheel_rotation_detected
        /\ g_sensor_health.trolley_shake_detected

\* The gate is ready and the operator has not even started the handshake.
C6_Witness ==
    /\ g_sensor_health.system_ready
    /\ g_sensor_health.init_state = "SYSTEM_READY"
    /\ g_mode_status.sensor_validation_state = "NOT_STARTED"

-----------------------------------------------------------------------------
(* Properties of the rate limiter (SpecRate) *)

RateCalls == 1..Len(rate_hist)

AcceptedIn(S) == Cardinality({k \in S : rate_hist[k].ok})

\* C10 as stated: of the commands issued within any one second, no more than
\* 10 are accepted.
C10_AsStated ==
    \A i, j \in RateCalls :
        (i <= j /\ rate_hist[j].t - rate_hist[i].t < 1000) => AcceptedIn(i..j) <= 10

\* Start of the window the k-th call falls into: a call more than 1000 ms
\* after the start of the previous call's window opens a new one.
RECURSIVE RateWindowStart(_)
RateWindowStart(k) ==
    IF k = 0 THEN 0
    ELSE LET p == RateWindowStart(k - 1)
         IN  IF rate_hist[k].t - p > 1000 THEN rate_hist[k].t ELSE p

SameWindowBefore(k) == {j \in 1..(k - 1) : RateWindowStart(j) = RateWindowStart(k)}

\* C10 (amended): in each window of the limiter (opened by the first call
\* more than 1000 ms after the previous window opened) the first 10 calls are
\* accepted and all further ones rejected; the call that opens a window is
\* always accepted.
C10_WindowLimit ==
    \A k \in RateCalls :
        rate_hist[k].ok <=> AcceptedIn(SameWindowBefore(k)) < MANUAL_MAX_COMMANDS_PER_SEC

\* 15 calls in one window, 10 accepted and 5 rejected, and the next call,
\* after the window, accepted again.
C10_Witness ==
    /\ Len(rate_hist) = 16
    /\ \A k \in 1..15 : RateWindowStart(k) = RateWindowStart(1)
    /\ AcceptedIn(1..15) = 10
    /\ RateWindowStart(16) # RateWindowStart(1)
    /\ rate_hist[16].ok

-----------------------------------------------------------------------------
(* Properties of the wire-learning run (SpecLearning) *)

\* The update loop takes the engine out of CALCULATING_RESULTS before the
\* run's time limit.
ResultsCalculated ==
    /\ g_learning_progress.state = "CALCULATING_RESULTS"
    /\ g_learning_progress'.state \in {"COMPLETE", "FAILED"}
    /\ now - g_learning_progress.learning_start_time <= WIRE_LEARNING_TIMEOUT_S * 1000

\* The two measured distances differ by no more than 5 % of their average
\* (in wheel turns: |f - r| / ((f + r) / 2) <= 5 / 100).
WithinTolerance(f, r) == f + r > 0 /\ 40 * Abs(f - r) <= f + r

\* C11: the run ends COMPLETE, with complete = TRUE and the average of the
\* two distances published as the wire length, exactly when the forward and
\* the reverse distance differ by no more than 5 %; otherwise it ends FAILED
\* and the coordinator's result is left as it was.
C11_SuccessIffWithinTolerance ==
    [][ResultsCalculated =>
          LET f == g_learning_progress.forward_rotations
              r == g_learning_progress.reverse_rotations
          IN  IF WithinTolerance(f, r)
              THEN /\ g_learning_progress'.state = "COMPLETE"
                   /\ g_learning_progress'.learning_successful
                   /\ g_mode_status'.wire_learning_complete
                   /\ 2 * g_mode_status'.wire_length_m =
                          (f + r) * (WHEEL_CIRCUMFERENCE_UM \div 100)
              ELSE /\ g_learning_progress'.state = "FAILED"
                   /\ g_mode_status'.wire_learning_complete =
                          g_mode_status.wire_learning_complete
                   /\ g_mode_status'.wire_length_m = g_mode_status.wire_length_m
       ]_vars

\* A run of 52 turns forward (10.0 m) and 54 turns back (10.3 m) has ended
\* COMPLETE with 10.15 m published.
C11_Witness ==
    /\ g_learning_progress.state = "COMPLETE"
    /\ g_learning_progress.forward_rotations = 52
    /\ g_learning_progress.reverse_rotations = 54
    /\ g_mode_status.wire_learning_complete
    /\ g_mode_status.wire_length_m = 101548

\* C12: whenever the engine enters FAILED, an error message is set and the
\* motor is stopped (the hardware's target speed is 0).
C12_AsStated ==
    [][(g_learning_progress.state # "FAILED" /\ g_learning_progress'.state = "FAILED")
          => /\ g_learning_progress'.error_message # ""
             /\ g_hw_status'.target_speed_ms = 0
      ]_vars

\* The coordinator's stored learning result.
PublishedResult(ms) == <<ms.wire_learning_complete, ms.wire_length_m>>

\* C13: every result that reaches the coordinator comes from a run that
\* ended COMPLETE, whose two distances agree within the tolerance and whose
\* wire length lies within [2 m, 2000 m]; a step that leaves the engine
\* FAILED, IDLE or STOPPING publishes nothing.
C13_AsStated ==
    [][PublishedResult(g_mode_status') # PublishedResult(g_mode_status)
          => /\ g_learning_progress'.state = "COMPLETE"
             /\ WithinTolerance(g_learning_progress'.forward_rotations,
                                g_learning_progress'.reverse_rotations)
             /\ g_mode_status'.wire_length_m >= Metres(MIN_WIRE_LENGTH_M)
             /\ g_mode_status'.wire_length_m <= Metres(MAX_WIRE_LENGTH_M)
      ]_vars

-----------------------------------------------------------------------------
(* Properties of the command paths (Spec) *)

\* The step is the web command of the given action and changed the manual
\* engine or the hardware.
Executed(cmd) ==
    cmd /\ <<g_hw_status', g_manual_status'>> # <<g_hw_status, g_manual_status>>

\* The command went through the rate limiter, which accepted and recorded
\* it, and the rest of manual_mode_validate_command passed.
PassedPipeline(type, speed_parameter) ==
    LET r == manual_mode_check_command_rate_limit(g_rate)
    IN  /\ g_rate' = r.r
        /\ manual_mode_validate_command(World, r.ret, type, speed_parameter)

\* C14: a manual command changes the engine or the hardware only after the
\* whole validation pipeline has passed: rate limit, manual mode active,
\* speed in range and within the step limit, ESC armed, sensor health.
C14_AsStated ==
    [][/\ Executed(CmdA) => PassedPipeline("ARM_ESC", 0)
       /\ Executed(CmdF) => PassedPipeline("FORWARD", MANUAL_MODE_DEFAULT_SPEED_MS)
       /\ Executed(CmdS) => PassedPipeline("STOP", 0)
      ]_vars

-----------------------------------------------------------------------------
(* Properties of the automatic engine's start (SpecAuto) *)

AutoPrerequisites ==
    /\ mode_coordinator_are_sensors_validated(World)
    /\ g_mode_status.wire_learning_complete
    /\ g_mode_status.wire_length_m >= Metres(AUTO_MODE_MIN_WIRE_LENGTH_M)

\* The step takes the automatic engine out of a state in which it is not
\* running into its arming state (or, the arming having failed, its error
\* state).
AutoEngineStarted ==
    /\ g_auto_progress'.state # g_auto_progress.state
    /\ g_auto_progress'.state \in {"INITIALIZING", "ARMING_ESC", "ACCELERATING", "ERROR"}

-----------------------------------------------------------------------------
(* Properties of the graceful stop (SpecGraceful) *)

\* The automatic engine is started and neither stopping nor stopped: it is
\* in one of its states from arming to cycle complete.
AutoRunning ==
    /\ Ord(AutoStates, g_auto_progress.state) >= Ord(AutoStates, "ARMING_ESC")
    /\ Ord(AutoStates, g_auto_progress.state) <= Ord(AutoStates, "CYCLE_COMPLETE")

\* C17: once a graceful stop has been requested of the running automatic
\* engine (the flag finishing_current_run is set), the engine comes to its
\* halt: eventually it has left its running states.
C17_AsStated ==
    (g_auto_progress.finishing_current_run /\ AutoRunning) ~> ~AutoRunning

-----------------------------------------------------------------------------
(* Properties of the coasting calibration (SpecCoasting) *)

\* The distance (0.1 mm) coasted since the calibration stopped the motor.
CoastedDistance ==
    hardware_rotations_to_distance(
        hardware_get_rotation_count(g_hw_status) - g_auto_progress.g_coasting_start_rotations)

\* The calibration has stopped the motor and the trolley has coasted, over
\* a distance outside 0.5 m .. 50 m.
CoastedOutOfRange ==
    /\ g_auto_progress.state = "COASTING_CALIBRATION"
    /\ g_auto_progress.calibration_motor_stopped
    /\ CoastedDistance > 0
    /\ \/ CoastedDistance < AUTO_COASTING_MIN_DISTANCE_MM * 10
       \/ CoastedDistance > AUTO_COASTING_MAX_DISTANCE_MM * 10

\* C18: when the calibration is given the speed of the trolley come to rest
\* after a coast outside 0.5 m .. 50 m, the engine enters its error state
\* and no coasting calibration is marked calibrated, in the engine or at the
\* coordinator.
C18_AsStated ==
    \A speed \in CoastSpeeds :
        CoastedOutOfRange /\ speed <= COAST_DETECTION_SPEED_MS =>
            LET r == automatic_mode_update_coasting_calibration(World, speed).w
            IN  /\ r.au.state = "ERROR"
                /\ ~r.au.coasting.calibrated
                /\ ~r.ms.coasting_calibrated

-----------------------------------------------------------------------------
(* Properties of the error count (SpecErrors) *)

\* C19: a report that brings the error count to the threshold of 10 (or
\* beyond) leaves the system unhealthy and emergency-stopped: motor target
\* 0, PWM neutral, ESC disarmed, no mode current, the manual engine idle.
C19_ThresholdForcesStop ==
    [][ReportError /\ g_mode_status'.g_error_count >= MAX_SYSTEM_ERRORS
         => /\ ~g_mode_status'.system_healthy
            /\ g_hw_status'.target_speed_ms = 0
            /\ g_hw_status'.ledc_duty = ESC_NEUTRAL_DUTY
            /\ ~g_hw_status'.esc_armed
            /\ g_mode_status'.current_mode = "NONE"
            /\ g_manual_status'.state = "IDLE"
      ]_vars

\* The tenth error has just been reported, and the system is unhealthy and
\* stopped.
C19_Witness ==
    /\ g_mode_status.g_error_count = MAX_SYSTEM_ERRORS
    /\ last_report = now
    /\ estop_cycles = 0
    /\ ~g_mode_status.system_healthy
    /\ g_hw_status.target_speed_ms = 0
    /\ g_mode_status.current_mode = "NONE"

\* C20: an update cycle taken more than 30 s after the last report sets a
\* nonzero error count to 0; an update cycle taken within 30 s of the last
\* report leaves the count as it is, however long ago the first report was,
\* and the passing of time alone does not change it.
C20_ErrorsAutoClear ==
    [][/\ SystemUpdate /\ g_mode_status.g_error_count > 0
              /\ now - last_report > ERROR_RESET_TIME_MS
          => g_mode_status'.g_error_count = 0
       /\ SystemUpdate /\ now - last_report <= ERROR_RESET_TIME_MS
          => g_mode_status'.g_error_count = g_mode_status.g_error_count
       /\ ErrTick => g_mode_status'.g_error_count = g_mode_status.g_error_count
      ]_vars

\* Errors were reported and, more than 30 s after the last of them, the
\* count is back to 0.
C20_Witness ==
    /\ last_report > 0
    /\ now - last_report > ERROR_RESET_TIME_MS
    /\ g_mode_status.g_error_count = 0

-----------------------------------------------------------------------------
(* Properties of the manual engine's states (SpecModes) *)

ManualHalted == g_manual_status.state \in {"ERROR", "EMERGENCY_STOP"}

\* C21 as stated: once the manual engine is in ERROR or EMERGENCY_STOP, no
\* step other than the system reset (command 'R') takes it to another
\* state: no motion, arm, disarm or stop command and no update tick.
C21_AsStated ==
    [][(ManualHalted /\ ~CmdR) => g_manual_status'.state = g_manual_status.state]_vars

-----------------------------------------------------------------------------
(* Properties of the gate's FAILED state (SpecValidation) *)

GateWaitStates == {"WAIT_WHEEL_ROTATION", "WAIT_TROLLEY_SHAKE"}

GateTimeout(state) ==
    IF state = "WAIT_WHEEL_ROTATION" THEN HALL_VALIDATION_TIMEOUT_MS
    ELSE ACCEL_VALIDATION_TIMEOUT_MS

\* When the gate's current wait began: START is left by the first update
\* after init_start_time was set, so the wheel wait runs from there; the
\* shake wait runs from the update that entered it.
GateWaitStart ==
    IF g_sensor_health.init_state = "WAIT_WHEEL_ROTATION"
    THEN g_sensor_health.init_start_time
    ELSE gate_entered

GateFails ==
    g_sensor_health.init_state # "FAILED" /\ g_sensor_health'.init_state = "FAILED"

\* C22 as stated: the gate enters FAILED only from one of its two wait
\* states, and only when the gate has been in that wait state for more than
\* the state's own 60 s without the detection; and it leaves FAILED only when
\* the validation is reset (command 'R').
C22_AsStated ==
    [][/\ GateFails =>
             /\ g_sensor_health.init_state \in GateWaitStates
             /\ now - GateWaitStart > GateTimeout(g_sensor_health.init_state)
             /\ ~g_sensor_health'.trolley_shake_detected
       /\ (g_sensor_health.init_state = "FAILED" /\ ~CmdR)
             => g_sensor_health'.init_state = "FAILED"]_vars

-----------------------------------------------------------------------------
(* Properties of the stored learning result (SpecResult) *)

ResultChanged == PublishedResult(g_mode_status') # PublishedResult(g_mode_status)

\* The step is the end of a learning run whose two distances agree within the
\* tolerance, and it stores a complete result.
OverwrittenByValidRun ==
    /\ g_learning_progress.state = "CALCULATING_RESULTS"
    /\ g_learning_progress'.state = "COMPLETE"
    /\ WithinTolerance(g_learning_progress'.forward_rotations,
                       g_learning_progress'.reverse_rotations)
    /\ g_mode_status'.wire_learning_complete

\* C23 as stated: a complete result held by the coordinator changes only by
\* being overwritten at the end of a new learning run whose forward and
\* reverse distances agree within the tolerance.
C23_AsStated ==
    [][(g_mode_status.wire_learning_complete /\ ResultChanged)
          => OverwrittenByValidRun]_vars

\* C23 (amended): a complete result held by the coordinator changes only by
\* being overwritten at the end of a new learning run whose distances agree
\* within the tolerance, or by being cleared by the system reset.
C23_OverwrittenOrReset ==
    [][(g_mode_status.wire_learning_complete /\ ResultChanged)
          => \/ OverwrittenByValidRun
             \/ CmdR /\ PublishedResult(g_mode_status') = <<FALSE, 0>>]_vars

\* The stored 10 m result has been overwritten by a run of 52 turns forward
\* and 54 turns back.
C23_Witness ==
    /\ g_learning_progress.state = "COMPLETE"
    /\ g_mode_status.wire_learning_complete
    /\ g_mode_status.wire_length_m = 101548
    /\ g_mode_status.wire_length_m # Metres(StoredWireLength)

-----------------------------------------------------------------------------
(* Properties of the automatic engine's safety polling (SpecModes) *)

\* C24 as stated: an update tick that finds the automatic engine in one of
\* its running states (ARMING_ESC to CYCLE_COMPLETE) while the coordinator's
\* motion-safety check fails (before the tick and after it) handles the
\* emergency: it leaves the engine in ERROR with the motor stopped.
C24_AsStated ==
    [][(/\ SystemUpdate
        /\ AutoRunning
        /\ ~automatic_mode_is_operation_safe(World)
        /\ ~automatic_mode_is_operation_safe(World'))
          => /\ g_auto_progress'.state = "ERROR"
             /\ g_hw_status'.target_speed_ms = 0]_vars

-----------------------------------------------------------------------------
(* Properties of the automatic engine's lifecycle (SpecGraceful) *)

AutoStopRequested == g_auto_progress.finishing_current_run \/ ~AutoRunning

\* C25 as stated, at the first step of the lifecycle: once started (state
\* ARMING_ESC), the engine is taken on to ACCELERATING by the update ticks,
\* unless a stop is requested or the motion-safety check fails.
C25_AsStated ==
    (g_auto_progress.state = "ARMING_ESC")
        ~> \/ g_auto_progress.state = "ACCELERATING"
           \/ AutoStopRequested
           \/ ~automatic_mode_is_operation_safe(World)

-----------------------------------------------------------------------------
(* Properties of the wire-end detection (SpecLearning) *)

\* A direction run with a speed test under way.
DirectionRun ==
    /\ g_learning_progress.state \in {"FORWARD_DIRECTION", "REVERSE_DIRECTION"}
    /\ g_learning_progress.g_current_test_speed > 0

\* The statics as wire_learning_mode_update finds them in the update cycle
\* that reads the given acceleration.
LearnWorld(read) ==
    mode_coordinator_update([World EXCEPT !.sh = sensor_health_update(World.sh, read)])

\* C26 as stated: in every update iteration of a direction run, with the
\* test speed validated or not, the detectors are evaluated (impact, then
\* speed drop, then Hall timeout) and a positive one ends the direction's
\* run: the engine leaves the direction's state.
C26_AsStated ==
    [][\A read \in AccelReads :
          (/\ SystemUpdate
           /\ World' = [system_update_task(World, read) EXCEPT !.delay = 0]
           /\ DirectionRun
           /\ wire_learning_get_best_detection_method(LearnWorld(read)).ret # "NONE")
             => g_learning_progress'.state # g_learning_progress.state]_vars

-----------------------------------------------------------------------------
(* Properties of the mode availability (SpecValidation) *)

\* The availability the claim gives a mode in the statics r that a
\* coordinator update has left: prerequisite is the mode's own prerequisite,
\* active whether its engine reports itself running.
ClaimedAvailability(r, prerequisite, active) ==
    IF ~r.ms.sensors_validated THEN "BLOCKED_SENSORS_NOT_VALIDATED"
    ELSE IF ~prerequisite THEN "BLOCKED_WIRE_LEARNING_REQUIRED"
    ELSE IF active THEN "ACTIVE"
    ELSE IF ~r.ms.system_healthy THEN "BLOCKED_SYSTEM_ERROR"
    ELSE "AVAILABLE"

\* C27 as stated: when mode_coordinator_update has run in an update cycle,
\* each mode's availability is blocked-by-sensors if the sensors are not
\* validated, else the prerequisite block (automatic: no complete learning
\* result), else active if the engine is running, else blocked-by-system-error
\* if the system is unhealthy as that update found it, else available.
C27_AsStated ==
    \A read \in AccelReads :
        LET r == LearnWorld(read)
        IN  /\ r.ms.wire_learning_availability =
                   ClaimedAvailability(r, TRUE, wire_learning_mode_is_active(r))
            /\ r.ms.automatic_availability =
                   ClaimedAvailability(r, r.ms.wire_learning_complete,
                                       automatic_mode_is_active(r))
            /\ r.ms.manual_availability =
                   ClaimedAvailability(r, TRUE, manual_mode_is_active(r))


-----------------------------------------------------------------------------
(* C28: sole writer of the duty cycle *)

\* A step that leaves the live duty or the PWM output different.
DutyWritten ==
    \/ g_hw_status'.current_esc_duty # g_hw_status.current_esc_duty
    \/ g_hw_status'.ledc_duty # g_hw_status.ledc_duty

\* C28: once the hardware is initialised, only a step of the ESC-update task
\* changes current_esc_duty or the PWM output.
C28_AsStated ==
    [][(g_hw_status.system_initialized /\ DutyWritten) => HwEscTask]_vars

-----------------------------------------------------------------------------
(* C30: the rate-limited ramp of the ESC-update task *)

TargetDuty == speed_to_esc_duty(g_hw_status.target_speed_ms, g_hw_status.direction_forward)

\* d lies between a and b, ends included, whichever is larger.
Between(a, d, b) == (a <= d /\ d <= b) \/ (b <= d /\ d <= a)

\* C30: with rate limiting enabled, a tick of the ESC-update task leaves the
\* live duty between its old value and the duty of the commanded target, at
\* most ESC_MAX_SPEED_CHANGE counts from the old value.
C30_RampStepBounded ==
    [][(HwEscTask /\ g_hw_status.g_rate_limiting_enabled)
         => /\ Abs(g_hw_status'.current_esc_duty - g_hw_status.current_esc_duty)
                   <= ESC_MAX_SPEED_CHANGE
            /\ Between(g_hw_status.current_esc_duty,
                       g_hw_status'.current_esc_duty, TargetDuty)]_vars

\* A ramp under way: armed, one limited step above neutral, target further up.
C30_Witness ==
    /\ g_hw_status.esc_armed
    /\ g_hw_status.g_rate_limiting_enabled
    /\ g_hw_status.current_esc_duty = ESC_NEUTRAL_DUTY + ESC_MAX_SPEED_CHANGE
    /\ g_hw_status.ledc_duty = g_hw_status.current_esc_duty
    /\ TargetDuty - g_hw_status.current_esc_duty > ESC_MAX_SPEED_CHANGE

-----------------------------------------------------------------------------
(* C29: the arming sequence is not interrupted *)

\* C29: from the first write of hardware_esc_arm until it returns, the PWM
\* output changes only by the sequence's own writes.
C29_AsStated ==
    [][(arm_pc # "idle" /\ g_hw_status'.ledc_duty # g_hw_status.ledc_duty)
         => (ArmSignal \/ ArmComplete)]_vars

-----------------------------------------------------------------------------
(* C31: the Hall queue drops on overflow and is processed first in, first out *)

\* The queued timestamps in strictly increasing order, all later than the
\* last one processed.
QueueInArrivalOrder ==
    /\ \A i \in 1..Len(g_hall_event_queue) :
           /\ g_hall_event_queue[i] > g_hw_status.last_hall_time
           /\ \A j \in 1..(i - 1) : g_hall_event_queue[j] < g_hall_event_queue[i]

\* C31: the ISR can always run; with HALL_QUEUE_DEPTH timestamps queued it
\* drops the pulse and otherwise appends its timestamp; the processing task
\* takes the oldest queued timestamp, removes it and counts one rotation, so
\* the timestamps are processed once each in the order of arrival.
C31_DropOnOverflowFifo ==
    [][/\ ENABLED hall_sensor_isr_handler
       /\ Len(g_hall_event_queue) <= HALL_QUEUE_DEPTH
       /\ QueueInArrivalOrder
       /\ (QueueEdge /\ Len(g_hall_event_queue) = HALL_QUEUE_DEPTH)
             => (g_hall_event_queue' = g_hall_event_queue /\ g_hw_status' = g_hw_status)
       /\ (QueueEdge /\ Len(g_hall_event_queue) < HALL_QUEUE_DEPTH)
             => g_hall_event_queue' = Append(g_hall_event_queue, now)
       /\ HwHallTask
             => /\ g_hall_event_queue' = Tail(g_hall_event_queue)
                /\ g_hw_status'.last_hall_time = Head(g_hall_event_queue)
                /\ g_hw_status'.last_hall_time > g_hw_status.last_hall_time
                /\ g_hw_status'.total_rotations = g_hw_status.total_rotations + 1]_vars

\* A pulse was dropped at a full queue after the task had processed others.
C31_Witness ==
    /\ Len(g_hall_event_queue) = HALL_QUEUE_DEPTH
    /\ lastPulseArrival > g_hall_event_queue[HALL_QUEUE_DEPTH]
    /\ g_hw_status.total_rotations >= 2
    /\ g_hw_status.last_hall_time < g_hall_event_queue[1]

-----------------------------------------------------------------------------
(* C32: three failed Hall-liveness observations in a row before the stop *)

\* The Hall-liveness check stops the manual engine: the observation fails and
\* the engine goes to EMERGENCY_STOP in the same step.
HallLivenessStop ==
    /\ g_manual_status'.g_motion_validation_failures =
           g_manual_status.g_motion_validation_failures + 1
    /\ g_manual_status.state # "EMERGENCY_STOP"
    /\ g_manual_status'.state = "EMERGENCY_STOP"

\* C32: a stop by the Hall-liveness check is the third failed observation in
\* a row of the manual session it happens in.
C32_AsStated ==
    [][HallLivenessStop => session_fails' >= MOTION_VALIDATION_MAX_FAILURES]_vars

-----------------------------------------------------------------------------
(* C33: the automatic engine's wire-end test against wire learning's *)

\* C33: during a direction run, on the statics as they stand, the automatic
\* engine's wire-end test (its target speed that of the learning run) is
\* true exactly when wire learning's detection reports a wire end.
C33_AsStated ==
    DirectionRun =>
        (automatic_mode_is_at_wire_end(World, g_learning_progress.g_current_test_speed)
           <=> wire_learning_get_best_detection_method(World).ret # "NONE")

-----------------------------------------------------------------------------
(* C34: current_mode agrees with the engines *)

\* C34: in every state, between the update cycles too, current_mode names
\* every active engine, and it is NONE only with no engine active.
C34_AsStated ==
    /\ \A e \in ActiveEngines : g_mode_status.current_mode = e
    /\ g_mode_status.current_mode = "NONE" => ActiveEngines = {}

-----------------------------------------------------------------------------
(* C35: no engine active, no motor command *)

\* C35: with none of the three engines active the hardware target speed is 0.
C35_AsStated ==
    ActiveEngines = {} => g_hw_status.target_speed_ms = 0

-----------------------------------------------------------------------------
(* C36: neutral after an emergency stop or a disarm *)

NeutralDuty(hw) ==
    hw.current_esc_duty = ESC_NEUTRAL_DUTY /\ hw.ledc_duty = ESC_NEUTRAL_DUTY

\* The state hardware_emergency_stop and hardware_esc_disarm return in.
StoppedNeutral == g_hw_status.target_speed_ms = 0 /\ NeutralDuty(g_hw_status)

\* C36: hardware_emergency_stop and hardware_esc_disarm leave the target
\* speed 0 and the live duty and the PWM neutral, and from there the duty
\* stays neutral in every step but an accepted speed command, however the
\* call was interleaved with an iteration of the ESC-update task.
C36_AsStated ==
    [][/\ (HwEmergencyStop \/ HwEscDisarm) => StoppedNeutral'
       /\ (StoppedNeutral /\ g_hw_status'.target_speed_ms = 0)
             => NeutralDuty(g_hw_status')]_vars


-----------------------------------------------------------------------------
\* C37 as stated: whenever the coordinator's sensors_validated is true, the
\* Sensor Health Gate's system_ready is true.
C37_AsStated ==
    g_mode_status.sensors_validated => g_sensor_health.system_ready


-----------------------------------------------------------------------------
(* Properties of the recovery (SpecRecover) *)

\* The mode's engine has been started and is running.
ModeRunning(w, mode) ==
    CASE mode = "WIRE_LEARNING" -> wire_learning_mode_is_active(w)
      [] mode = "AUTOMATIC" ->
            /\ Ord(AutoStates, w.au.state) >= Ord(AutoStates, "ARMING_ESC")
            /\ Ord(AutoStates, w.au.state) <= Ord(AutoStates, "CYCLE_COMPLETE")
      [] OTHER -> manual_mode_is_active(w)

\* The prerequisites of a mode: validated sensors and a healthy system, and
\* for the automatic mode a complete learning result of at least 2 m.
ModePrerequisites(w, mode) ==
    /\ w.ms.sensors_validated
    /\ w.ms.system_healthy
    /\ mode = "AUTOMATIC" =>
           /\ w.ms.wire_learning_complete
           /\ w.ms.wire_length_m >= Metres(AUTO_MODE_MIN_WIRE_LENGTH_M)

RecoveryModes == {"WIRE_LEARNING", "AUTOMATIC", "MANUAL"}

\* C38 as stated: after an emergency stop, a reset and a successful sensor
\* re-validation, an update tick reports every mode available whose
\* prerequisites hold before and after the tick and whose engine is running
\* neither before nor after it.
C38_AsStated ==
    [][\A mode \in RecoveryModes :
         (/\ recovery = "validated"
          /\ ModePrerequisites(World, mode)
          /\ ModePrerequisites(World', mode)
          /\ ~ModeRunning(World, mode)
          /\ ~ModeRunning(World', mode)
          /\ SystemUpdate)
         => mode_coordinator_is_mode_available(World', mode)]_vars


-----------------------------------------------------------------------------
(* Properties of the learning run's timeout (SpecTimeout) *)

\* More than 60 s have passed since the start of the learning run.
RunTimedOut ==
    now - g_learning_progress.learning_start_time > WIRE_LEARNING_TIMEOUT_S * 1000

RunEnded ==
    g_learning_progress.state \in {"COMPLETE", "FAILED", "STOPPING", "IDLE"}

\* C39: an update tick that finds the learning engine in an active state
\* more than 60 s after the run's start leaves it in Complete, Failed,
\* Stopping or Idle, so no run is active after the first tick past 60 s.
C39_RunEndsAtTimeout ==
    [][(RunTimedOut /\ wire_learning_mode_is_active(World) /\ SystemUpdate)
          => RunEnded']_vars

\* A run was cut by the timeout while the trolley was being driven.
C39_Witness ==
    /\ g_learning_progress.state = "FAILED"
    /\ g_learning_progress.error_message = "Wire learning timeout"
    /\ RunTimedOut
    /\ g_hw_status.target_speed_ms = 0
    /\ g_hw_status.total_rotations > 0


-----------------------------------------------------------------------------
(* Properties of manual_mode_set_speed (SpecModes) *)

\* The three status fields manual_mode_set_speed writes before it calls the
\* hardware.
SpeedFields(mm) == <<mm.target_speed_ms, mm.direction_forward, mm.motor_active>>

\* C40 as stated: a call of manual_mode_set_speed that returns an error (by
\* command F, speed 0.5 m/s forward, or by command S, speed 0) leaves
\* target_speed_ms, direction_forward and motor_active as they were.
C40_AsStated ==
    [][/\ (manual_mode_move_forward(World).ret # "ESP_OK" /\ CmdF)
            => SpeedFields(g_manual_status') = SpeedFields(g_manual_status)
       /\ (manual_mode_stop_movement(World).ret # "ESP_OK" /\ CmdS)
            => SpeedFields(g_manual_status') = SpeedFields(g_manual_status)]_vars

====
